---- MODULE Spec2Model ----
(***************************************************************************)
(* A model of HoldSleuth: the t-nut grid estimator and snapper of          *)
(* image_detection/SVG_to_image_grid.py, the route store of                *)
(* utils/route_manager.py and the keystone transform of the two projection *)
(* displays under pi/.                                                     *)
(*                                                                         *)
(* Numbers.  The Python code computes with binary floating point.  A float *)
(* is modelled as a pair <<m, e>> standing for m * 2^e, where m is a       *)
(* signed significand of exactly MantBits bits (or <<0, 0>> for zero) and  *)
(* every operation rounds its exact result to the nearest such value, ties *)
(* to even, as IEEE-754 does.  MantBits is 53 in CPython; the model uses a *)
(* narrower significand.  Exponents are unbounded (no overflow, no         *)
(* subnormals).                                                            *)
(***************************************************************************)
EXTENDS Integers, Sequences, FiniteSets, TLC

VARIABLES
    svg_file,      \* the SVG document a scan starts from
    image_size,    \* <<width, height>> of the photograph
    env,           \* what the file system and the rasteriser will do
    svg_root,      \* the parsed tree transform_svg_to_grid rewrites in place
    tnuts,         \* the bolt positions
    grid_params,   \* the grid parameters, or None
    snap,          \* what the last transform_svg_to_grid call left, or None
    output_svg,    \* the grid-aligned SVG written, or None
    output_jpg,    \* the JPEG written, or None
    scan_pc,       \* where the scan stands
    est_points,    \* the points handed to the grid parameter estimator
    probe,         \* the last bolt mapped back to a cell
    found,         \* what HoughCircles returns for each preset of detect_tnuts
    tried,         \* the presets detect_tnuts has tried
    circles,       \* the local variable circles of detect_tnuts
    detected,      \* what detect_tnuts returned or raised, None before
    route_data,    \* the dict handed to validate_route or save_route
    routes_folder, \* the files of the routes folder: filename and content
    route_result,  \* what the last call returned or raised
    response,      \* the HTTP response of /api/routes
    route_pc,      \* where the route request stands
    display,       \* which display program runs: the module under pi/
    keystone,      \* its keystone factor
    proj,          \* its projection area
    key_presses,   \* keystone key presses handled so far
    ks_call,       \* the last apply_keystone call: arguments and result
    running,       \* the flag run() and handle_network share
    current_route, \* the route the listener stored, None before the first
    wall_position, \* the wall position the listener stored
    hold_size,     \* the hold size the listener stored
    sock,          \* the UDP socket: "open" or "closed"
    net_pc,        \* where handle_network stands
    last_msg,      \* the datagram recvfrom returned last
    run_pc,        \* where run() stands
    frame,         \* what the render() in progress, or the last one, read and drew
    exit_cause,    \* why the main loop was left
    recv_age,      \* receive timeouts the pending recvfrom has waited
    join_age,      \* receive timeouts the join has waited
    projection_system, \* the fields of the global ProjectionSystem and its lock
    ps_threads,    \* the projection loop threads ever started, in order
    ps_calls,      \* the start_projection or stop_projection call of each thread
    app,           \* the Flask app object: pending_scans and config['GRID_JPG_PATH']
    requests,      \* the /scan or /scan/finalize request of each worker
    finalized      \* per scan id, the successes reported since it was registered

detectVars == <<found, tried, circles, detected>>

scanVars == <<svg_file, image_size, env, svg_root, tnuts, grid_params, snap,
              output_svg, output_jpg, scan_pc, est_points, probe, detectVars>>

routeVars == <<route_data, routes_folder, route_result, response, route_pc>>

liveVars == <<running, current_route, wall_position, hold_size, sock, net_pc,
              last_msg, run_pc, frame, exit_cause, recv_age, join_age>>

displayVars == <<display, keystone, proj, key_presses, ks_call, liveVars>>

projectionVars == <<projection_system, ps_threads, ps_calls>>

pendingVars == <<app, requests, finalized>>

webVars == <<projectionVars, pendingVars>>

vars == <<scanVars, routeVars, displayVars, webVars>>

\* Width of the significand of the model's floats.
MantBits == 11

----------------------------------------------------------------------------
\* Floating point

Abs(n) == IF n < 0 THEN -n ELSE n

Sgn(n) == IF n < 0 THEN -1 ELSE IF n > 0 THEN 1 ELSE 0

RECURSIVE BitLen(_)
BitLen(n) == IF n = 0 THEN 0 ELSE 1 + BitLen(n \div 2)

FZero == <<0, 0>>

\* A significand that rounding carried to MantBits + 1 bits is renormalised.
Carry(q, e) == IF q = 2^MantBits THEN <<2^(MantBits - 1), e + 1>> ELSE <<q, e>>

\* Quotient q and remainder r of a division by 2 * half: round to nearest,
\* ties to the even quotient unless a sticky part lies beyond r.
RoundHalfEven(q, r, half, e, sticky) ==
    Carry(IF r > half \/ (r = half /\ (sticky \/ q % 2 = 1)) THEN q + 1 ELSE q, e)

\* n, of len bits, as a significand of MantBits bits.
Normalise(n, e, sticky, len) ==
    IF len <= MantBits
    THEN <<n * 2^(MantBits - len), e - (MantBits - len)>>
    ELSE RoundHalfEven(n \div 2^(len - MantBits), n % 2^(len - MantBits),
                       2^(len - MantBits - 1), e + (len - MantBits), sticky)

\* The float nearest to (n + d) * 2^e for an integer n >= 0 and some d in
\* [0, 1) that is nonzero iff sticky; ties go to the even significand.
\* With sticky set, n has more than MantBits bits.
RoundNE(n, e, sticky) ==
    IF n = 0 THEN FZero ELSE Normalise(n, e, sticky, BitLen(n))

WithSign(s, f) == <<s * f[1], f[2]>>

\* The model's floats, as pairs <<significand, exponent>>
Flt == Int \X Int

FNeg(a) == <<-a[1], a[2]>>

\* The float nearest to n * 2^e for a signed integer n.
RoundSigned(n, e) == WithSign(Sgn(n), RoundNE(Abs(n), e, FALSE))

\* a + b with both significands brought to the exponent e.
AddAt(a, b, e) == RoundSigned(a[1] * 2^(a[2] - e) + b[1] * 2^(b[2] - e), e)

\* float(i) for a Python int i
FromInt(i) == RoundSigned(i, 0)

FAddOf[a \in Flt, b \in Flt] ==
    IF a[1] = 0 THEN b
    ELSE IF b[1] = 0 THEN a
    ELSE IF a[2] - b[2] > MantBits + 1 THEN a
    ELSE IF b[2] - a[2] > MantBits + 1 THEN b
    ELSE AddAt(a, b, IF a[2] < b[2] THEN a[2] ELSE b[2])

\* a + b
FAdd(a, b) == FAddOf[a, b]

\* a - b
FSub(a, b) == FAddOf[a, FNeg(b)]

FMulOf[a \in Flt, b \in Flt] ==
    WithSign(Sgn(a[1]) * Sgn(b[1]), RoundNE(Abs(a[1]) * Abs(b[1]), a[2] + b[2], FALSE))

\* a * b
FMul(a, b) == FMulOf[a, b]

\* The float nearest to sign * num / den * 2^e.
DivFrom(sign, num, den, e) == WithSign(sign, RoundNE(num \div den, e, num % den # 0))

FDivOf[a \in Flt, b \in Flt] ==
    IF a[1] = 0 THEN FZero
    ELSE DivFrom(Sgn(a[1]) * Sgn(b[1]), Abs(a[1]) * 2^(MantBits + 1), Abs(b[1]),
                 a[2] - b[2] - (MantBits + 1))

\* a / b for b # 0
FDiv(a, b) == FDivOf[a, b]

FTruncOf[a \in Flt] ==
    IF a[2] >= 0 THEN a[1] * 2^(a[2])
    ELSE IF -a[2] >= MantBits THEN 0
    ELSE Sgn(a[1]) * (Abs(a[1]) \div 2^(-a[2]))

\* int(a): truncation toward zero
FTrunc(a) == FTruncOf[a]

\* a < b, a <= b
FLt(a, b) == FAddOf[a, FNeg(b)][1] < 0

FLe(a, b) == FAddOf[a, FNeg(b)][1] <= 0

FMinOf[a \in Flt, b \in Flt] == IF FLt(b, a) THEN b ELSE a

FMaxOf[a \in Flt, b \in Flt] == IF FLt(a, b) THEN b ELSE a

\* min(a, b), max(a, b)
FMin(a, b) == FMinOf[a, b]

FMax(a, b) == FMaxOf[a, b]

RECURSIVE ISqrtIter(_, _, _)
ISqrtIter(n, bit, res) ==
    IF bit = 0 THEN res
    ELSE IF (res + bit) * (res + bit) <= n
         THEN ISqrtIter(n, bit \div 2, res + bit)
         ELSE ISqrtIter(n, bit \div 2, res)

\* floor of the square root of an integer n < 2^(2*MantBits + 4)
ISqrt(n) == ISqrtIter(n, 2^(MantBits + 2), 0)

\* sqrt(n * 2^e) for n > 0 and even e, from the integer root s of n.
SqrtFrom(n, e, s) == RoundNE(s, e \div 2, s * s # n)

\* sqrt(m * 2^(e - k)) with m scaled by 2^k so that e - k is even.
SqrtScaled(m, e, k) == SqrtFrom(m * 2^k, e - k, ISqrt(m * 2^k))

FSqrtOf[a \in Flt] ==
    IF a[1] = 0 THEN FZero
    ELSE SqrtScaled(a[1], a[2],
                    IF (a[2] - (MantBits + 2)) % 2 = 0 THEN MantBits + 2 ELSE MantBits + 3)

\* sqrt(a) for a >= 0
FSqrt(a) == FSqrtOf[a]

\* Op applied to the value of v, with v evaluated once.
Let(v, Op(_)) == CHOOSE r \in {Op(x) : x \in {v}} : TRUE

----------------------------------------------------------------------------
\* The t-nut grid: image_detection/SVG_to_image_grid.py

\* The grid of one wall segment: 8 columns, 40 rows.
GridCols == 8

GridRows == 40

\* Python's None
None == [tag |-> "None"]

\* An attribute value that is present
Some(v) == [tag |-> "Some", val |-> v]

\* min and max of the range so far with one more tagged position.
Widen(range, t) ==
    <<FMin(range[1], t[1]), FMax(range[2], t[1]), FMin(range[3], t[2]), FMax(range[4], t[2])>>

RECURSIVE HoldRangeFrom(_, _, _)
HoldRangeFrom(polygons, i, acc) ==
    IF i > Len(polygons) THEN acc
    ELSE IF polygons[i].tnut = None THEN HoldRangeFrom(polygons, i + 1, acc)
    ELSE IF acc = None
         THEN HoldRangeFrom(polygons, i + 1,
                  Some(<<polygons[i].tnut.val[1], polygons[i].tnut.val[1],
                         polygons[i].tnut.val[2], polygons[i].tnut.val[2]>>))
         ELSE HoldRangeFrom(polygons, i + 1, Some(Widen(acc.val, polygons[i].tnut.val)))

\* get_hold_range: <<min_x, max_x, min_y, max_y>> over the polygons that carry
\* data-tnut-x and data-tnut-y, None when no polygon does.
get_hold_range(root) == HoldRangeFrom(root.polygons, 1, None)

\* The range divided by the number of columns and rows.
RangeGridByCount(min_x, max_x, min_y, max_y) ==
    [spacing_x |-> FDiv(FSub(max_x, min_x), FromInt(8)),
     spacing_y |-> FDiv(FSub(max_y, min_y), FromInt(40)),
     origin_x  |-> min_x,
     origin_y  |-> min_y]

\* Spacing and origin from the range of the tagged holds: 7 intervals for 8
\* columns, 39 intervals for 40 rows, origin at the minimum.
RangeGrid(min_x, max_x, min_y, max_y) ==
    [spacing_x |-> FDiv(FSub(max_x, min_x), FromInt(7)),
     spacing_y |-> FDiv(FSub(max_y, min_y), FromInt(39)),
     origin_x  |-> min_x,
     origin_y  |-> min_y]

\* Spacing and origin from the image dimensions: origin half a spacing in.
OriginAtHalf(spacing_x, spacing_y) ==
    [spacing_x |-> spacing_x,
     spacing_y |-> spacing_y,
     origin_x  |-> FDiv(spacing_x, FromInt(2)),
     origin_y  |-> FDiv(spacing_y, FromInt(2))]

ImageGrid(width, height) ==
    OriginAtHalf(FDiv(FromInt(width), FromInt(8)), FDiv(FromInt(height), FromInt(40)))

\* The spacing and origin generate_tnut_grid settles on for a hold range.
GridBase(width, height, hold_range) ==
    IF hold_range # None
    THEN RangeGrid(hold_range.val[1], hold_range.val[2], hold_range.val[3], hold_range.val[4])
    ELSE ImageGrid(width, height)

\* The bolt of column x, row y.
TnutAt(base, x, y) ==
    <<FAdd(base.origin_x, FMul(FromInt(x), base.spacing_x)),
      FAdd(base.origin_y, FMul(FromInt(y), base.spacing_y))>>

\* The bolts, row by row, and the grid parameters of a spacing and origin.
GridOf(base) ==
    [tnuts |-> [i \in 1..(GridRows * GridCols) |->
                    TnutAt(base, (i - 1) % GridCols, (i - 1) \div GridCols)],
     grid_params |->
        [spacing_x |-> base.spacing_x,
         spacing_y |-> base.spacing_y,
         origin_x  |-> base.origin_x,
         origin_y  |-> base.origin_y,
         max_x     |-> FAdd(base.origin_x, FMul(base.spacing_x, FromInt(8))),
         max_y     |-> FAdd(base.origin_y, FMul(base.spacing_y, FromInt(40)))]]

\* generate_tnut_grid
generate_tnut_grid(width, height, root) ==
    Let(GridBase(width, height, IF root = None THEN None ELSE get_hold_range(root)), GridOf)

\* Column k of an array of points.
Coord(points, k) == [i \in 1..Len(points) |-> points[i][k]]

RECURSIVE InsertFloat(_, _, _)
InsertFloat(sorted, v, i) ==
    IF i > Len(sorted) THEN Append(sorted, v)
    ELSE IF FLt(v, sorted[i])
         THEN SubSeq(sorted, 1, i - 1) \o <<v>> \o SubSeq(sorted, i, Len(sorted))
         ELSE InsertFloat(sorted, v, i + 1)

RECURSIVE SortFrom(_, _, _)
SortFrom(vs, i, sorted) ==
    IF i > Len(vs) THEN sorted
    ELSE Let(InsertFloat(sorted, vs[i], 1), LAMBDA longer : SortFrom(vs, i + 1, longer))

\* np.sort
Sort(vs) == SortFrom(vs, 1, <<>>)

\* np.diff: the differences of neighbours
Diff(vs) == [i \in 1..(Len(vs) - 1) |-> FSub(vs[i + 1], vs[i])]

\* vs[vs > bound]
Above(vs, bound) == SelectSeq(vs, LAMBDA v : FLt(bound, v))

\* The middle of a sorted array, the mean of the middle two for an even length.
Middle(sorted) ==
    IF Len(sorted) % 2 = 1 THEN sorted[(Len(sorted) + 1) \div 2]
    ELSE FDiv(FAdd(sorted[Len(sorted) \div 2], sorted[Len(sorted) \div 2 + 1]), FromInt(2))

\* np.median
Median(vs) == Let(Sort(vs), Middle)

RECURSIVE MinFrom(_, _, _)
MinFrom(vs, i, acc) ==
    IF i > Len(vs) THEN acc ELSE Let(FMin(acc, vs[i]), LAMBDA m : MinFrom(vs, i + 1, m))

RECURSIVE MaxFrom(_, _, _)
MaxFrom(vs, i, acc) ==
    IF i > Len(vs) THEN acc ELSE Let(FMax(acc, vs[i]), LAMBDA m : MaxFrom(vs, i + 1, m))

\* np.min, np.max of a non-empty array
Min(vs) == MinFrom(vs, 2, vs[1])

Max(vs) == MaxFrom(vs, 2, vs[1])

\* The differences of more than 5 pixels between neighbouring coordinates.
SpacingDiffs(coords) == Above(Diff(Sort(coords)), FromInt(5))

\* The parameters calculate_grid_parameters reads off the filtered differences.
MedianGrid(x_coords, y_coords, x_diffs, y_diffs) ==
    IF Len(x_diffs) = 0 \/ Len(y_diffs) = 0 THEN None
    ELSE [spacing_x |-> Median(x_diffs),
          spacing_y |-> Median(y_diffs),
          origin_x  |-> Min(x_coords),
          origin_y  |-> Min(y_coords),
          max_x     |-> Max(x_coords),
          max_y     |-> Max(y_coords)]

DiffGrid(x_coords, y_coords) ==
    Let(<<SpacingDiffs(x_coords), SpacingDiffs(y_coords)>>,
        LAMBDA d : MedianGrid(x_coords, y_coords, d[1], d[2]))

\* calculate_grid_parameters: None for fewer than 4 positions or when either
\* axis has no difference above 5, else the median spacing and the extent.
calculate_grid_parameters(tnut_positions) ==
    IF Len(tnut_positions) < 4 THEN None
    ELSE DiffGrid(Coord(tnut_positions, 1), Coord(tnut_positions, 2))

\* The parameters infer_grid_from_holds derives from the extent of the holds:
\* 20 pixels of padding, 8 columns, 40 rows.
PaddedGrid(min_x, max_x, min_y, max_y) ==
    [spacing_x |-> FDiv(FAdd(FSub(max_x, min_x), FromInt(20)), FromInt(8)),
     spacing_y |-> FDiv(FAdd(FSub(max_y, min_y), FromInt(20)), FromInt(40)),
     origin_x  |-> FSub(min_x, FromInt(10)),
     origin_y  |-> FSub(min_y, FromInt(10)),
     max_x     |-> FAdd(max_x, FromInt(10)),
     max_y     |-> FAdd(max_y, FromInt(10))]

\* infer_grid_from_holds
infer_grid_from_holds(hold_positions) ==
    IF Len(hold_positions) < 4 THEN None
    ELSE PaddedGrid(Min(Coord(hold_positions, 1)), Max(Coord(hold_positions, 1)),
                    Min(Coord(hold_positions, 2)), Max(Coord(hold_positions, 2)))

\* max(0, min(hi, v))
Clamp(v, hi) == IF v > hi THEN hi ELSE IF v < 0 THEN 0 ELSE v

\* int((position - origin) / spacing)
CellIndex(position, origin, spacing) == FTrunc(FDiv(FSub(position, origin), spacing))

\* The grid cell transform_svg_to_grid derives from a bolt position.
GridPos(nearest_tnut, params) ==
    <<Clamp(CellIndex(nearest_tnut[1], params.origin_x, params.spacing_x), 7),
      Clamp(CellIndex(nearest_tnut[2], params.origin_y, params.spacing_y), 39)>>

\* sqrt(dx^2 + dy^2)
Hypot(dx, dy) == FSqrt(FAdd(FMul(dx, dx), FMul(dy, dy)))

\* sqrt((a.x - b.x)^2 + (a.y - b.y)^2)
Distance(a, b) == Hypot(FSub(a[1], b[1]), FSub(a[2], b[2]))

\* Of two indices a < b, the one with the lesser value, a on a tie.
Lesser(ds, a, b) == IF FLt(ds[b], ds[a]) THEN b ELSE a

RECURSIVE ArgMinIn(_, _, _)
ArgMinIn(ds, lo, hi) ==
    IF lo = hi THEN lo
    ELSE Let(<<ArgMinIn(ds, lo, (lo + hi) \div 2), ArgMinIn(ds, (lo + hi) \div 2 + 1, hi)>>,
             LAMBDA p : Lesser(ds, p[1], p[2]))

\* np.argmin: the first index that holds the least value
ArgMin(ds) == ArgMinIn(ds, 1, Len(ds))

\* get_svg_viewbox: <<min_x, min_y, width, height>> of the viewBox, or of the
\* declared width and height when the root has no viewBox.
get_svg_viewbox(root) ==
    IF root.viewBox # None THEN root.viewBox.val
    ELSE <<FZero, FZero,
           IF root.width # None THEN root.width.val ELSE FZero,
           IF root.height # None THEN root.height.val ELSE FZero>>

\* The viewBox origin and the scale factors for a viewBox vb.
ViewFrom(root, vb) ==
    [min_x   |-> vb[1],
     min_y   |-> vb[2],
     scale_x |-> IF vb[3][1] # 0
                 THEN FDiv(IF root.width # None THEN root.width.val ELSE vb[3], vb[3])
                 ELSE FromInt(1),
     scale_y |-> IF vb[4][1] # 0
                 THEN FDiv(IF root.height # None THEN root.height.val ELSE vb[4], vb[4])
                 ELSE FromInt(1)]

\* The viewBox origin and the scale factors transform_svg_to_grid works with.
ViewOf(root) == ViewFrom(root, get_svg_viewbox(root))

\* A point of the document in actual coordinates.
ToActual(pt, view) ==
    <<FMul(FSub(pt[1], view.min_x), view.scale_x),
      FMul(FSub(pt[2], view.min_y), view.scale_y)>>

\* An actual point back in viewBox coordinates.
ToViewBox(pt, view) ==
    <<FAdd(FDiv(pt[1], view.scale_x), view.min_x),
      FAdd(FDiv(pt[2], view.scale_y), view.min_y)>>

RECURSIVE SumCoord(_, _, _, _)
SumCoord(pts, k, i, acc) ==
    IF i > Len(pts) THEN acc ELSE SumCoord(pts, k, i + 1, FAdd(acc, pts[i][k]))

\* The centroid of a contour: sum(...) / len(...) on each axis.
Centroid(pts) ==
    <<FDiv(SumCoord(pts, 1, 1, FZero), FromInt(Len(pts))),
      FDiv(SumCoord(pts, 2, 1, FZero), FromInt(Len(pts)))>>

\* int((bolt - origin) / spacing) raises when the quotient is not finite.
GridPosRaises(params) ==
    params.spacing_x[1] = 0 \/ params.spacing_y[1] = 0

\* The points of a polygon in actual coordinates.
OriginalPoints(polygon, view) ==
    [i \in 1..Len(polygon.points) |-> ToActual(polygon.points[i], view)]

\* The reference point of a polygon: its tagged position in actual
\* coordinates, else the centroid of its points.
TnutOf(polygon, original_points, view) ==
    IF polygon.tnut # None
    THEN ToActual(polygon.tnut.val, view)
    ELSE Centroid(original_points)

\* The bolt nearest to a reference point.
NearestTnut(bolts, tnut) ==
    bolts[ArgMin([i \in 1..Len(bolts) |-> Distance(bolts[i], tnut)])]

\* The entry the first pass appends for a polygon.
HoldEntry(idx, original_points, tnut, nearest_tnut, grid_pos) ==
    [polygon         |-> idx,
     original_points |-> original_points,
     tnut_x          |-> tnut[1],
     tnut_y          |-> tnut[2],
     grid_x          |-> grid_pos[1],
     grid_y          |-> grid_pos[2],
     nearest_tnut    |-> nearest_tnut,
     distance        |-> Distance(nearest_tnut, tnut)]

HoldAtBolt(idx, original_points, tnut, nearest_tnut, params) ==
    HoldEntry(idx, original_points, tnut, nearest_tnut, GridPos(nearest_tnut, params))

HoldWithPoints(idx, polygon, original_points, view, params, bolts) ==
    Let(TnutOf(polygon, original_points, view),
        LAMBDA tnut : HoldAtBolt(idx, original_points, tnut, NearestTnut(bolts, tnut), params))

\* First pass of transform_svg_to_grid over polygon number idx: its points in
\* actual coordinates, its reference point, its nearest bolt and grid cell,
\* and the distance the sort is keyed on.
FirstPass(root, idx, params, bolts) ==
    Let(ViewOf(root),
        LAMBDA view : HoldWithPoints(idx, root.polygons[idx],
                                     OriginalPoints(root.polygons[idx], view),
                                     view, params, bolts))

\* list.sort(key=distance) is stable: a hold goes behind every hold that is
\* not farther from its bolt than it is.
RECURSIVE InsertByDistance(_, _, _)
InsertByDistance(sorted, hold, i) ==
    IF i > Len(sorted) THEN Append(sorted, hold)
    ELSE IF FLt(hold.distance, sorted[i].distance)
         THEN SubSeq(sorted, 1, i - 1) \o <<hold>> \o SubSeq(sorted, i, Len(sorted))
         ELSE InsertByDistance(sorted, hold, i + 1)

RECURSIVE SortByDistance(_, _, _)
SortByDistance(holds, i, sorted) ==
    IF i > Len(holds) THEN sorted
    ELSE SortByDistance(holds, i + 1, InsertByDistance(sorted, holds[i], 1))

\* The points moved by the offset and left in actual coordinates.
MovedInActual(original_points, offset_x, offset_y, view) ==
    [i \in 1..Len(original_points) |->
        <<FAdd(original_points[i][1], offset_x), FAdd(original_points[i][2], offset_y)>>]

\* The points of a retained hold, moved by the offset to its bolt.
MovedPoints(original_points, offset_x, offset_y, view) ==
    [i \in 1..Len(original_points) |->
        ToViewBox(<<FAdd(original_points[i][1], offset_x),
                    FAdd(original_points[i][2], offset_y)>>, view)]

\* The polygon of a retained hold, moved onto its bolt and annotated.
Snapped(polygon, hold, view) ==
    [polygon EXCEPT
        !.points = MovedPoints(hold.original_points,
                               FSub(hold.nearest_tnut[1], hold.tnut_x),
                               FSub(hold.nearest_tnut[2], hold.tnut_y), view),
        !.grid = Some(<<hold.grid_x, hold.grid_y>>),
        !.tnut = Some(hold.nearest_tnut),
        !.original_tnut = Some(<<hold.tnut_x, hold.tnut_y>>)]

\* A second pass that skips nothing.
NeverSkipped(holds, i, occupied) == FALSE

\* Whether the second pass skips the hold at position i of the sorted list.
Skipped(holds, i, occupied) == <<holds[i].grid_x, holds[i].grid_y>> \in occupied

\* Second pass: walk the sorted holds, skip a hold whose cell is occupied,
\* else occupy the cell and rewrite the polygon.
RECURSIVE SecondPass(_, _, _, _, _)
SecondPass(holds, i, occupied, polygons, view) ==
    IF i > Len(holds) THEN [polygons |-> polygons, occupied |-> occupied]
    ELSE IF Skipped(holds, i, occupied)
         THEN SecondPass(holds, i + 1, occupied, polygons, view)
         ELSE SecondPass(holds, i + 1,
                  occupied \cup {<<holds[i].grid_x, holds[i].grid_y>>},
                  [polygons EXCEPT ![holds[i].polygon] = Snapped(@, holds[i], view)],
                  view)

\* What transform_svg_to_grid leaves: the document, the sorted holds and the
\* occupied cells.
Transformed(root, holds, done) ==
    [svg_root |-> [root EXCEPT !.polygons = done.polygons],
     holds    |-> holds,
     occupied |-> done.occupied,
     raised   |-> FALSE]

\* The holds of the first pass, in document order.
FirstPassAll(root, params, bolts) ==
    [i \in 1..Len(root.polygons) |-> FirstPass(root, i, params, bolts)]

\* The holds left in document order.
Unsorted(holds) == holds

\* The holds in the order list.sort leaves them.
SortedHolds(holds) == SortByDistance(holds, 1, <<>>)

TransformSorted(root, holds) ==
    Let(SecondPass(holds, 1, {}, root.polygons, ViewOf(root)),
        LAMBDA done : Transformed(root, holds, done))

\* transform_svg_to_grid: the document afterwards, the sorted list of holds,
\* the occupied cells, and whether the call raised.
transform_svg_to_grid(root, params, bolts) ==
    IF params = None
    THEN [svg_root |-> root, holds |-> <<>>, occupied |-> {}, raised |-> FALSE]
    ELSE IF Len(root.polygons) > 0 /\ GridPosRaises(params)
    THEN [svg_root |-> root, holds |-> <<>>, occupied |-> {}, raised |-> TRUE]
    ELSE Let(SortedHolds(FirstPassAll(root, params, bolts)),
             LAMBDA holds : TransformSorted(root, holds))

\* The root once convert_svg_to_jpeg_grid has set its width and height, and its
\* viewBox if it had none.
WithDimensions(file, size) ==
    [file EXCEPT
        !.width = Some(FromInt(size[1])),
        !.height = Some(FromInt(size[2])),
        !.viewBox = IF @ # None THEN @
                    ELSE Some(<<FZero, FZero, FromInt(size[1]), FromInt(size[2])>>)]

\* The root with the data-grid-* attributes of the grid parameters.
WithGridAttributes(root, params) ==
    [root EXCEPT !.data_grid = Some([spacing_x |-> params.spacing_x,
                                     spacing_y |-> params.spacing_y,
                                     origin_x  |-> params.origin_x,
                                     origin_y  |-> params.origin_y,
                                     columns   |-> GridCols,
                                     rows      |-> GridRows])]

\* The debug plot indexes the hold positions as a 2-d array and reads
\* data-tnut-x off every polygon: it raises when there is no polygon or one
\* that carries no tag.
DebugPlotRaises(root) ==
    Len(root.polygons) = 0 \/ \E i \in DOMAIN root.polygons : root.polygons[i].tnut = None

\* What a call that raised leaves behind: no file.
ConvertRaised(root, g, t) ==
    [raised |-> TRUE, svg_root |-> root, tnuts |-> g.tnuts, grid_params |-> g.grid_params,
     snap |-> t, output_svg |-> None, output_jpg |-> None]

\* The files written from the finished tree: a failed write leaves neither
\* file, a failed rasterisation leaves the SVG alone; both are caught.
ConvertWritten(root, g, t, e) ==
    [raised      |-> FALSE,
     svg_root    |-> root,
     tnuts       |-> g.tnuts,
     grid_params |-> g.grid_params,
     snap        |-> t,
     output_svg  |-> IF e.write_ok THEN Some(root) ELSE None,
     output_jpg  |-> IF e.write_ok /\ e.raster_ok THEN Some(root) ELSE None]

ConvertTransformed(g, t, e) ==
    IF t.raised THEN ConvertRaised(t.svg_root, g, t)
    ELSE IF e.debug /\ DebugPlotRaises(t.svg_root)
    THEN ConvertRaised(WithGridAttributes(t.svg_root, g.grid_params), g, t)
    ELSE ConvertWritten(WithGridAttributes(t.svg_root, g.grid_params), g, t, e)

ConvertOnGrid(file, size, e, g) ==
    Let(transform_svg_to_grid(WithDimensions(file, size), g.grid_params, g.tnuts),
        LAMBDA t : ConvertTransformed(g, t, e))

\* convert_svg_to_jpeg_grid on the document of the SVG file, for a photograph
\* of the given size under the environment e: the tree at the end, the grid,
\* the files written, and whether the call raised.
convert_svg_to_jpeg_grid(file, size, e) ==
    IF ~e.image_ok
    THEN [raised |-> TRUE, svg_root |-> None, tnuts |-> <<>>, grid_params |-> None,
          snap |-> None, output_svg |-> None, output_jpg |-> None]
    ELSE Let(generate_tnut_grid(size[1], size[2], file),
             LAMBDA g : ConvertOnGrid(file, size, e, g))

----------------------------------------------------------------------------
\* The route store: utils/route_manager.py and /api/routes of web_interface/app.py

\* An exception of class exc whose str() is msg.
Raised(exc, msg) == [exc |-> exc, msg |-> msg]

\* JSON numbers, booleans and strings as Python holds them.
JInt(n) == [kind |-> "int", val |-> n]

JBool(b) == [kind |-> "bool", val |-> IF b THEN 1 ELSE 0]

JFloat(n) == [kind |-> "float", val |-> n]

JStr(t) == [kind |-> "str", str |-> t]

\* isinstance(v, int): bool is a subclass of int.
IsInt(v) == v.kind \in {"int", "bool"}

\* isinstance(v, (int, float))
IsNumber(v) == v.kind \in {"int", "bool", "float"}

\* any(hold['type'] == t for hold in holds) from hold i on: "True" at the
\* first hold of type t, "KeyError" at a hold without the key before that.
RECURSIVE AnyTypeFrom(_, _, _)
AnyTypeFrom(holds, i, t) ==
    IF i > Len(holds) THEN "False"
    ELSE IF "type" \notin DOMAIN holds[i] THEN "KeyError"
    ELSE IF holds[i].type = t THEN "True"
    ELSE AnyTypeFrom(holds, i + 1, t)

valid_types == {"start", "foot", "regular", "finish"}

\* The checks of the loop body on one hold: what it raises, or None.  The
\* invalid-type message lists the valid types in the set's iteration order.
HoldError(hold) ==
    IF ~({"x", "y", "type"} \subseteq DOMAIN hold)
    THEN Raised("ValueError", "Each hold must have x, y, and type properties")
    ELSE IF ~IsInt(hold.x) \/ ~(0 <= hold.x.val /\ hold.x.val <= 7)
    THEN Raised("ValueError", "Hold x position must be an integer between 0 and 7")
    ELSE IF ~IsNumber(hold.y) \/ hold.y.val < 0
    THEN Raised("ValueError", "Hold y position must be a positive number")
    ELSE IF hold.type \notin valid_types
    THEN Raised("ValueError", "Invalid hold type. Must be one of: ")
    ELSE None

RECURSIVE FirstHoldError(_, _)
FirstHoldError(holds, i) ==
    IF i > Len(holds) THEN None
    ELSE IF HoldError(holds[i]) # None THEN HoldError(holds[i])
    ELSE FirstHoldError(holds, i + 1)

\* validate_route from the start and finish checks on.
CheckHolds(holds, has_start, has_finish) ==
    IF has_start = "KeyError" \/ has_finish = "KeyError" THEN Raised("KeyError", "'type'")
    ELSE IF has_start = "False"
    THEN Raised("ValueError", "Route must have at least one start hold")
    ELSE IF has_finish = "False"
    THEN Raised("ValueError", "Route must have at least one finish hold")
    ELSE FirstHoldError(holds, 1)

\* has_start is evaluated first; has_finish only if that did not raise.
StartAndFinish(holds, has_start) ==
    CheckHolds(holds, has_start,
               IF has_start = "KeyError" THEN "KeyError" ELSE AnyTypeFrom(holds, 1, "finish"))

\* validate_route: None when the route is accepted, else what it raises.
validate_route(route) ==
    IF ~({"name", "holds"} \subseteq DOMAIN route)
    THEN Raised("ValueError", "Missing required fields: name and holds")
    ELSE IF route.holds = <<>>
    THEN Raised("ValueError", "Route must have at least one hold")
    ELSE StartAndFinish(route.holds, AnyTypeFrom(route.holds, 1, "start"))

\* The route with a creation timestamp if it had none.
Stamped(route) ==
    IF "created_at" \in DOMAIN route THEN route
    ELSE [k \in DOMAIN route \cup {"created_at"} |->
            IF k \in DOMAIN route THEN route[k] ELSE "now"]

\* What a save_route call leaves: the exception or None, the filename
\* returned, the dict and the folder afterwards.
SaveOutcome(raised, filename, route, folder) ==
    [raised |-> raised, filename |-> filename, route_data |-> route, routes_folder |-> folder]

\* save_route from the timestamp on, for a route that passed validation.
WriteRoute(route, folder, filename, writable) ==
    IF writable
    THEN SaveOutcome(None, Some(filename), route,
                     folder \cup {[filename |-> filename, data |-> route]})
    ELSE SaveOutcome(Raised("OSError", "cannot open file"), None, route, folder)

\* A save_route that stamps and writes the route without validating it.
save_route_unvalidated(route, folder, filename, writable) ==
    WriteRoute(Stamped(route), folder, filename, writable)

\* save_route(route_data, routes_folder), for the filename uuid4 yields and a
\* folder that can or cannot be written.
save_route(route, folder, filename, writable) ==
    IF validate_route(route) # None
    THEN SaveOutcome(validate_route(route), None, route, folder)
    ELSE WriteRoute(Stamped(route), folder, filename, writable)

\* The response of POST /api/routes for the outcome of save_route.
PostResponse(outcome) ==
    IF outcome.raised = None
    THEN [status |-> 200, message |-> "Route saved successfully",
          filename |-> outcome.filename.val]
    ELSE [status |-> 400, error |-> outcome.raised.msg]

----------------------------------------------------------------------------
\* The keystone transform: pi/projection_display.py and pi/keystone_projection.py

\* The render surface of projection_display.py.
base_width == 560

base_height == 1140

\* The window keystone_projection.py opens, before its rotation.
surface_width == 600

surface_height == 1000

\* A projection area of keystone_projection.py.
Area(width, proj_width, height, proj_height) ==
    [proj_x |-> (width - proj_width) \div 2, proj_y |-> (height - proj_height) \div 2,
     proj_width |-> proj_width, proj_height |-> proj_height]

\* The 3:5 area of the full height, or of the full width if that is too wide.
FitArea(width, height, proj_width) ==
    IF proj_width > width - 40
    THEN Area(width, width - 40, height,
              FTrunc(FMul(FromInt(width - 40), FDiv(FromInt(5), FromInt(3)))))
    ELSE Area(width, proj_width, height, height - 40)

\* update_projection_area of keystone_projection.py for a surface of the
\* given size.
update_projection_area(width, height) ==
    FitArea(width, height, FTrunc(FMul(FromInt(height - 40), FDiv(FromInt(3), FromInt(5)))))

\* An adjustment without bounds.
Unclamped(k, amount) == FAdd(k, amount)

\* adjust_keystone: max(-1.0, min(1.0, keystone + amount))
adjust_keystone(k, amount) == FMax(FromInt(-1), FMin(FromInt(1), FAdd(k, amount)))

\* center_x + (x - center_x) * scale_factor, truncated
ScaledAboutCentre(x, y, center_x, scale_factor) ==
    <<FTrunc(FAdd(center_x, FMul(FSub(FromInt(x), center_x), scale_factor))), y, scale_factor>>

\* apply_keystone of projection_display.py
apply_keystone(k, x, y, base_scale) ==
    ScaledAboutCentre(x, y, FMul(FromInt(base_width), FDiv(FromInt(1), FromInt(2))),
        FMul(FAdd(FromInt(1),
                  FMul(k, FSub(FromInt(1),
                               FMul(FromInt(2), FDiv(FromInt(y), FromInt(base_height)))))),
             base_scale))

\* proj_x + proj_width * 0.5 + (rel_x - 0.5) * proj_width * scale_factor, truncated
ScaledInArea(area, y, rel_x, scale_factor) ==
    <<FTrunc(FAdd(FAdd(FromInt(area.proj_x),
                       FMul(FromInt(area.proj_width), FDiv(FromInt(1), FromInt(2)))),
                  FMul(FMul(FSub(rel_x, FDiv(FromInt(1), FromInt(2))),
                            FromInt(area.proj_width)),
                       scale_factor))),
      y, scale_factor>>

\* apply_keystone of keystone_projection.py
apply_keystone_area(k, area, x, y) ==
    ScaledInArea(area, y,
        FDiv(FromInt(x - area.proj_x), FromInt(area.proj_width)),
        FSub(FromInt(1),
             FMul(k, FSub(FMul(FromInt(2),
                               FDiv(FromInt(y - area.proj_y), FromInt(area.proj_height))),
                          FromInt(1)))))

\* |a|
FAbs(a) == <<Abs(a[1]), a[2]>>

\* The scale render of projection_display.py hands to apply_keystone.
RenderScale(k) == FDiv(FromInt(1), FAdd(FromInt(1), FAbs(k)))

----------------------------------------------------------------------------
\* The frame: render() of pi/projection_display.py and pi/keystone_projection.py

\* float('nan') and float('inf'): a zero significand under a non-zero exponent,
\* which no finite float has.
NaN == <<0, 1>>

Inf == <<0, 2>>

IsFinite(a) == a \notin {NaN, Inf}

\* a % n for a finite float a and an int n > 0: exact, with the sign of n.
FMod(a, n) ==
    IF a[2] >= 0 THEN FromInt((a[1] * 2^a[2]) % n)
    ELSE RoundSigned(a[1] % (n * 2^(0 - a[2])), a[2])

\* base_segment = int(self.wall_position / 40) for a finite position; int()
\* raises on nan and inf.
BaseSegment(pos) == FTrunc(FDiv(pos, FromInt(40)))

\* segment_progress = (self.wall_position % 40) / 40
SegmentProgress(pos) ==
    IF IsFinite(pos) THEN FDiv(FMod(pos, 40), FromInt(40)) ELSE NaN

\* visible_start = row_offset - (segment_progress * 20), with row_offset = 20
VisibleStart(segment_progress) ==
    IF segment_progress = NaN THEN NaN
    ELSE FSub(FromInt(20), FMul(segment_progress, FromInt(20)))

\* A test that lets every row through.
AnyRow(hold_y, visible_start) == TRUE

\* visible_start <= hold_y < visible_end, with visible_end = visible_start + 20;
\* every comparison with nan is false.
InWindow(hold_y, visible_start) ==
    /\ visible_start # NaN
    /\ FLe(visible_start, FromInt(hold_y))
    /\ FLt(FromInt(hold_y), FAdd(visible_start, FromInt(20)))

\* What render does with one hold: skip it, draw it, or raise.
Skip == [kind |-> "skip"]

KeyError(key) == [kind |-> "raise", exc |-> "KeyError", msg |-> key]

\* The circles of one hold: centre, radius and colour key, with the scale
\* factor apply_keystone returned for the hold.
Drawn(hold, adj, adjusted_size) ==
    [kind |-> "draw", hold |-> hold, x |-> adj[1], y |-> adj[2],
     scale |-> adj[3], size |-> adjusted_size]

\* keystone_projection.py: the hold at a pixel inside the projection area.
DrawInArea(k, area, size, hold, adj) ==
    Drawn(hold, adj, FTrunc(FMul(FromInt(size), adj[3])))

\* keystone_projection.py: draw only if proj_y <= screen_y <= proj_y + proj_height.
PlaceInArea(k, area, size, hold, screen_x, screen_y) ==
    IF ~(/\ FLe(FromInt(area.proj_y), screen_y)
         /\ FLe(screen_y, FromInt(area.proj_y + area.proj_height)))
    THEN Skip
    ELSE IF "type" \notin DOMAIN hold THEN KeyError("type")
    ELSE DrawInArea(k, area, size, hold,
                    apply_keystone_area(k, area, FTrunc(screen_x), FTrunc(screen_y)))

\* keystone_projection.py: the screen position of a hold inside the window.
ScreenInArea(k, area, size, hold, visible_start) ==
    PlaceInArea(k, area, size, hold,
        FAdd(FromInt(area.proj_x),
             FMul(FromInt(hold.x), FDiv(FromInt(area.proj_width), FromInt(8)))),
        FAdd(FromInt(area.proj_y),
             FMul(FSub(FromInt(hold.y), visible_start),
                  FDiv(FromInt(area.proj_height), FromInt(20)))))

\* projection_display.py: a border start, scaled_offset + border * scale_factor,
\* for a base extent with the given number of spaces.
ScaledBorderStart(base, spaces, scale_factor) ==
    FAdd(FDiv(FSub(FromInt(base), FMul(FromInt(base), scale_factor)), FromInt(2)),
         FMul(FDiv(FDiv(FromInt(base), FromInt(spaces)), FromInt(2)), scale_factor))

\* projection_display.py: a border extent, (base - spacing) * scale_factor.
ScaledBorderSize(base, spaces, scale_factor) ==
    FMul(FSub(FromInt(base), FDiv(FromInt(base), FromInt(spaces))), scale_factor)

\* draw_hold of projection_display.py at the pixel apply_keystone returned.
draw_hold(size, hold, scale_factor, adj) ==
    Drawn(hold, adj, FTrunc(FMul(FMul(FromInt(size), scale_factor), adj[3])))

\* projection_display.py: draw only if
\* scaled_border_y <= screen_y <= scaled_border_y + scaled_border_height.
PlaceOnSurface(k, size, hold, scale_factor, screen_x, screen_y, border_y, border_height) ==
    IF ~(FLe(border_y, screen_y) /\ FLe(screen_y, FAdd(border_y, border_height)))
    THEN Skip
    ELSE IF "type" \notin DOMAIN hold THEN KeyError("type")
    ELSE draw_hold(size, hold, scale_factor,
                   apply_keystone(k, FTrunc(screen_x), FTrunc(screen_y), scale_factor))

\* projection_display.py: the screen position of a hold inside the window.
ScreenOnSurface(k, size, hold, visible_start, scale_factor) ==
    PlaceOnSurface(k, size, hold, scale_factor,
        FAdd(ScaledBorderStart(base_width, 7, scale_factor),
             FMul(FromInt(hold.x),
                  FDiv(ScaledBorderSize(base_width, 7, scale_factor), FromInt(7)))),
        FAdd(ScaledBorderStart(base_height, 19, scale_factor),
             FMul(FSub(FromInt(hold.y), visible_start),
                  FDiv(ScaledBorderSize(base_height, 19, scale_factor), FromInt(19)))),
        ScaledBorderStart(base_height, 19, scale_factor),
        ScaledBorderSize(base_height, 19, scale_factor))

\* One pass of the hold loop of render(): the segment filter, the window
\* filter, then the variant's placement.
RenderHold(d, k, area, size, base_segment, visible_start, hold) ==
    IF "segment" \notin DOMAIN hold THEN KeyError("segment")
    ELSE IF hold.segment # base_segment THEN Skip
    ELSE IF "x" \notin DOMAIN hold THEN KeyError("x")
    ELSE IF "y" \notin DOMAIN hold THEN KeyError("y")
    ELSE IF ~InWindow(hold.y, visible_start) THEN Skip
    ELSE IF d = "keystone_projection"
    THEN ScreenInArea(k, area, size, hold, visible_start)
    ELSE ScreenOnSurface(k, size, hold, visible_start, RenderScale(k))

----------------------------------------------------------------------------
\* The listener: handle_network of both display programs

\* JSON null, arrays and objects as Python holds them.
JNull == [kind |-> "null"]

JList(items) == [kind |-> "list", items |-> items]

JObject(fields) == [kind |-> "dict", fields |-> fields]

\* Datagrams: bytes that are not UTF-8, text that is not JSON, a JSON value.
Undecodable == [form |-> "bytes", value |-> JNull]

NotJson == [form |-> "text", value |-> JNull]

Json(v) == [form |-> "json", value |-> v]

\* dict.get(key), None for an absent key
Get(obj, key) == IF key \in DOMAIN obj.fields THEN obj.fields[key] ELSE JNull

\* msg_data.get('holds', [])
HoldsOf(route) ==
    IF "holds" \in DOMAIN route.fields THEN route.fields.holds ELSE JList(<<>>)

\* The value of a conversion, or that it raised.
Value(v) == [ok |-> TRUE, val |-> v]

Raises == [ok |-> FALSE]

\* The numerals among the strings a datagram carries.
Numerals == {"15"}

NumeralValue(t) == IF t = "15" THEN 15 ELSE 0

\* float(msg_data)
PyFloat(v) ==
    IF v.kind \in {"int", "bool", "float"} THEN Value(FromInt(v.val))
    ELSE IF v.kind # "str" THEN Raises
    ELSE IF v.str = "nan" THEN Value(NaN)
    ELSE IF v.str = "inf" THEN Value(Inf)
    ELSE IF v.str \in Numerals THEN Value(FromInt(NumeralValue(v.str)))
    ELSE Raises

\* int(msg_data)
PyInt(v) ==
    IF v.kind \in {"int", "bool", "float"} THEN Value(v.val)
    ELSE IF v.kind = "str" /\ v.str \in Numerals THEN Value(NumeralValue(v.str))
    ELSE Raises

\* len(v) is defined
HasLen(v) == v.kind \in {"str", "list", "dict"}

\* The three fields the listener writes.
Fields(route, position, size) ==
    [current_route |-> route, wall_position |-> position, hold_size |-> size]

\* self.wall_position = float(msg_data), unless float() raised
StorePosition(fields, converted) ==
    IF converted.ok THEN [fields EXCEPT !.wall_position = converted.val] ELSE fields

\* self.hold_size = int(msg_data), unless int() raised
StoreSize(fields, converted) ==
    IF converted.ok THEN [fields EXCEPT !.hold_size = converted.val] ELSE fields

\* msg_type == t
IsType(msg_type, t) == msg_type.kind = "str" /\ msg_type.str = t

\* A dispatch in which a route message also rewinds the wall position.
DispatchRewinding(fields, msg_type, msg_data) ==
    IF IsType(msg_type, "route") /\ msg_data.kind = "dict"
    THEN Fields(Some(msg_data), FZero, fields.hold_size)
    ELSE fields

\* The branch of handle_network for the message type; an exception in a
\* branch is caught and leaves the fields as they were.
Dispatch(fields, msg_type, msg_data) ==
    IF IsType(msg_type, "route")
    THEN IF msg_data.kind = "dict" /\ HasLen(HoldsOf(msg_data))
         THEN [fields EXCEPT !.current_route = Some(msg_data)]
         ELSE fields
    ELSE IF IsType(msg_type, "position") THEN StorePosition(fields, PyFloat(msg_data))
    ELSE IF IsType(msg_type, "hold_size") THEN StoreSize(fields, PyInt(msg_data))
    ELSE fields

\* The body of the listener loop for one datagram: decode, json.loads,
\* message.get, dispatch; every exception is caught inside the loop.
handle_datagram(fields, datagram) ==
    IF datagram.form # "json" \/ datagram.value.kind # "dict" THEN fields
    ELSE Dispatch(fields, Get(datagram.value, "type"), Get(datagram.value, "data"))

\* sock.settimeout(0.1) and join(timeout=1.0), in tenths of a second.
RecvTimeout == 1

\* A join that does not wait.
NoWait == RecvTimeout - RecvTimeout

JoinTimeout == 10

\* What a frame has read and drawn so far.
NoFrame ==
    [seg_pos |-> FZero, base_segment |-> 0, prog_pos |-> FZero,
     holds |-> <<>>, next |-> 1, drawn |-> <<>>]

\* The holds render iterates: the items of a list; indexing an item of any
\* other iterable with 'segment' raises.
Iterated(holds) == IF holds.kind = "list" THEN holds.items ELSE <<>>

IterationRaises(holds) ==
    \/ holds.kind \in {"null", "int", "bool", "float"}
    \/ holds.kind = "str" /\ holds.str # ""
    \/ holds.kind = "dict" /\ DOMAIN holds.fields # {}

\* if hasattr(self, 'current_route') and self.current_route
RouteLoaded(route) == route # None /\ DOMAIN route.val.fields # {}

----------------------------------------------------------------------------
\* Bolt detection: detect_tnuts

\* The presets (dp, minDist, param1, param2, minRadius, maxRadius) in the
\* order the loop takes them.
circle_params ==
    << <<1, 20, 50, 20, 2, 8>>, <<1, 30, 50, 25, 3, 10>>, <<1, 40, 50, 30, 4, 12>> >>

\* An array of ndim dimensions; coordinates and radii are in half pixels.
Array(ndim, data) == [ndim |-> ndim, data |-> data]

\* a[0, :]
FirstOf(a) == Array(a.ndim - 1, a.data[1])

\* np.round of a value in half pixels: the nearest whole pixel, the even one
\* of two equally near.
NpRound(h) ==
    IF h % 2 = 0 THEN h
    ELSE IF ((h - 1) \div 2) % 2 = 0 THEN h - 1 ELSE h + 1

RoundCircle(c) == <<NpRound(c[1]), NpRound(c[2]), NpRound(c[3])>>

RoundRows(rows) == [i \in 1..Len(rows) |-> RoundCircle(rows[i])]

\* np.round(a).astype(int)
Rounded(a) ==
    IF a.ndim = 1 THEN Array(1, RoundCircle(a.data))
    ELSE IF a.ndim = 2 THEN Array(2, RoundRows(a.data))
    ELSE Array(3, <<RoundRows(a.data[1])>>)

\* circles is not None and len(circles[0]) > 10
Enough(c) == c # None /\ Len(c.val.data[1]) > 10

\* The debug block: circles = np.round(circles[0, :]).astype(int)
DebugCircles(debug, c) ==
    IF debug /\ c # None THEN Some(Rounded(FirstOf(c.val))) ELSE c

\* The return statement: np.round(circles[0, :]).astype(int), or None
ReturnValue(c) == IF c # None THEN Some(Rounded(FirstOf(c.val))) ELSE None

----------------------------------------------------------------------------
\* Inputs of the scan specifications

\* The most polygons a document holds.
MaxHolds == 3

F(n) == FromInt(n)

\* n / 2
Half(n) == FDiv(FromInt(n), FromInt(2))

Pt(x, y) == <<F(x), F(y)>>

Triangle(x, y) == <<Pt(x, y), Pt(x + 3, y), Pt(x, y + 3)>>

Polygon(points, tnut) ==
    [points |-> points, tnut |-> tnut, grid |-> None, original_tnut |-> None]

\* Holds as the segmenter leaves them: a contour, and for some the bolt
\* position tagged by an earlier pass.
HoldPool ==
    { Polygon(Triangle(12, 19), Some(Pt(13, 20))),
      Polygon(Triangle(16, 19), Some(<<Half(35), F(20)>>)),
      Polygon(Triangle(9, 19), None),
      Polygon(Triangle(6, 19), Some(Pt(7, 20))),
      Polygon(Triangle(40, 20), Some(Pt(41, 21))),
      Polygon(Triangle(10, 63), None) }

RECURSIVE SeqsUpTo(_, _)
SeqsUpTo(S, n) ==
    IF n = 0 THEN {<<>>}
    ELSE LET shorter == SeqsUpTo(S, n - 1)
         IN  shorter \cup {Append(q, x) : q \in {r \in shorter : Len(r) = n - 1}, x \in S}

NoView == [viewBox |-> None, width |-> None, height |-> None]

ScaledView ==
    [viewBox |-> Some(<<F(5), F(5), F(50), F(50)>>), width |-> Some(F(100)), height |-> Some(F(100))]

Doc(view, polygons) ==
    [viewBox |-> view.viewBox, width |-> view.width, height |-> view.height,
     data_grid |-> None, polygons |-> polygons]

SnapDocs == {Doc(v, ps) : v \in {NoView, ScaledView}, ps \in SeqsUpTo(HoldPool, MaxHolds)}

BoltSets ==
    { <<Pt(10, 20), Pt(40, 20), Pt(10, 60)>>,
      <<Pt(40, 20), Pt(10, 20)>>,
      <<Pt(10, 60), Pt(10, 20), Pt(22, 32)>> }

Params(ox, oy, sx, sy) ==
    [spacing_x |-> F(sx), spacing_y |-> F(sy), origin_x |-> F(ox), origin_y |-> F(oy),
     max_x |-> F(ox + 8 * sx), max_y |-> F(oy + 40 * sy)]

\* Grid parameters handed to the snapper, one with a spacing of 0 and one with
\* a negative spacing among them.
SnapParams ==
    {Params(10, 20, 30, 40), Params(10, 20, 0, 40), Params(10, 20, -30, 40)}

NoEnv == [image_ok |-> TRUE, write_ok |-> TRUE, raster_ok |-> TRUE, debug |-> FALSE]

Callers == {"t1", "t2"}

Workers == {"w1", "w2"}

NoCall == [pc |-> "idle", op |-> "none", route |-> None, result |-> "none"]

\* ProjectionSystem.__init__: no route, not running, no thread, lock free.
NewProjectionSystem ==
    [active_route |-> None, _running |-> FALSE, _update_thread |-> 0, _lock |-> "free"]

\* No projection call in this behaviour.
IdleProjection ==
    /\ projection_system = NewProjectionSystem
    /\ ps_threads = <<>>
    /\ ps_calls = [c \in Callers |-> NoCall]

ScanIds == {"a", "b"}

Filename(stem, ext) == [stem |-> stem, ext |-> ext]

NoPath == Filename("", "")

\* The app before the first scan: no pending_scans attribute yet, and
\* app.config['GRID_JPG_PATH'] = None.
NewApp == [has_pending_scans |-> FALSE, pending_scans |-> {}, GRID_JPG_PATH |-> NoPath]

NoRequest ==
    [pc |-> "idle", op |-> "none", scan_id |-> "", holds |-> 0, image_path |-> NoPath,
     response |-> None]

\* No scan request in this behaviour.
IdlePending ==
    /\ app = NewApp
    /\ requests = [w \in Workers |-> NoRequest]
    /\ finalized = [id \in ScanIds |-> 0]

IdleWeb == IdleProjection /\ IdlePending

\* No circle detection in this behaviour.
IdleDetect == found = <<>> /\ tried = 0 /\ circles = None /\ detected = None

IdleEstimator == est_points = <<>> /\ probe = None /\ IdleDetect

\* No scan in this behaviour.
IdleScan ==
    /\ svg_file = None
    /\ image_size = <<0, 0>>
    /\ env = NoEnv
    /\ svg_root = None
    /\ tnuts = <<>>
    /\ grid_params = None
    /\ snap = None
    /\ output_svg = None
    /\ output_jpg = None
    /\ scan_pc = "idle"
    /\ IdleEstimator

\* No listener and no render loop in this behaviour.
IdleLive ==
    /\ running = FALSE
    /\ current_route = None
    /\ wall_position = FZero
    /\ hold_size = 20
    /\ sock = "none"
    /\ net_pc = "idle"
    /\ last_msg = None
    /\ run_pc = "idle"
    /\ frame = NoFrame
    /\ exit_cause = "none"
    /\ recv_age = 0
    /\ join_age = 0

\* No display in this behaviour.
IdleDisplay ==
    /\ IdleLive
    /\ display = "none"
    /\ keystone = FZero
    /\ proj = None
    /\ key_presses = 0
    /\ ks_call = None

\* No route request in this behaviour.
IdleRoutes ==
    /\ route_data = None
    /\ routes_folder = {}
    /\ route_result = None
    /\ response = None
    /\ route_pc = "idle"

----------------------------------------------------------------------------
\* The snapper on its own: transform_svg_to_grid on a parsed document, a bolt
\* set and grid parameters.

InitSnap ==
    /\ IdleWeb
    /\ svg_file \in SnapDocs
    /\ svg_root = svg_file
    /\ tnuts \in BoltSets
    /\ grid_params \in SnapParams
    /\ image_size = <<100, 100>>
    /\ env = NoEnv
    /\ snap = None
    /\ output_svg = None
    /\ output_jpg = None
    /\ scan_pc = "parsed"
    /\ IdleEstimator
    /\ IdleRoutes
    /\ IdleDisplay

TransformSvgToGrid ==
    /\ scan_pc = "parsed"
    /\ snap' = transform_svg_to_grid(svg_root, grid_params, tnuts)
    /\ svg_root' = snap'.svg_root
    /\ scan_pc' = IF snap'.raised THEN "raised" ELSE "snapped"
    /\ UNCHANGED <<svg_file, image_size, env, tnuts, grid_params, output_svg, output_jpg,
                   est_points, probe, detectVars,
                   routeVars, displayVars, webVars>>

NextSnap == TransformSvgToGrid

SpecSnap == InitSnap /\ [][NextSnap]_vars

\* The polygons transform_svg_to_grid snapped and annotated.
Retained == {i \in DOMAIN svg_root.polygons : svg_root.polygons[i].original_tnut # None}

\* The first-pass entries of the last call, as a set.
Candidates == {snap.holds[k] : k \in DOMAIN snap.holds}

CellOf(hold) == <<hold.grid_x, hold.grid_y>>

\* C1: after transform_svg_to_grid no two retained holds carry the same grid
\* cell: the data-grid-x, data-grid-y annotations of the snapped polygons are
\* pairwise different.
C1_NoDuplicateCells ==
    scan_pc = "snapped" =>
        \A i \in Retained : \A j \in Retained :
            i # j => svg_root.polygons[i].grid # svg_root.polygons[j].grid

\* Two holds were retained in different cells and a third lost a collision.
C1_Witness ==
    /\ scan_pc = "snapped"
    /\ Cardinality(Retained) = 2
    /\ Len(svg_root.polygons) = 3
    /\ \E h \in Candidates : \E k \in Candidates :
           h.polygon # k.polygon /\ CellOf(h) = CellOf(k)

\* C2: of the holds that target one grid cell, transform_svg_to_grid retains
\* exactly one, and no competitor for the cell is closer to its nearest bolt
\* than the retained one, whatever the order of the holds in the document.
C2_ClosestWins ==
    scan_pc = "snapped" =>
        \A h \in Candidates :
            /\ Cardinality({k \in Candidates :
                                CellOf(k) = CellOf(h) /\ k.polygon \in Retained}) = 1
            /\ \A w \in Candidates : \A k \in Candidates :
                   (CellOf(w) = CellOf(h) /\ CellOf(k) = CellOf(h) /\ w.polygon \in Retained)
                       => FLe(w.distance, k.distance)

\* Competitors at distances 7.5 and 3.0, the farther one first in the
\* document: the one at 3.0 is retained, the other is not.
C2_Witness ==
    /\ scan_pc = "snapped"
    /\ \E h \in Candidates : \E k \in Candidates :
           /\ h.polygon < k.polygon
           /\ CellOf(h) = CellOf(k)
           /\ h.distance = Half(15)
           /\ k.distance = F(3)
           /\ k.polygon \in Retained
           /\ h.polygon \notin Retained

----------------------------------------------------------------------------
\* A whole scan: convert_svg_to_jpeg_grid on an SVG file and its photograph.

\* Holds as scanner.save_as_svg writes them, for a wall whose tagged bolts
\* span (0, 0) .. (70, 780), and one the segmenter left untagged.
ConvertPool ==
    { Polygon(Triangle(-1, -1), Some(Pt(0, 0))),
      Polygon(Triangle(69, 779), Some(Pt(70, 780))),
      Polygon(Triangle(1, 0), Some(Pt(2, 1))),
      Polygon(Triangle(4, 4), None) }

\* The most polygons the SVG file of a scan holds.
MaxScanHolds == 2

ConvertDocs == {Doc(NoView, ps) : ps \in SeqsUpTo(ConvertPool, MaxScanHolds)}

ImageSizes == {<<80, 400>>, <<160, 800>>}

\* What can go wrong around the computation: the photograph cannot be read,
\* the output folder cannot be written, the rasteriser fails; and the debug
\* flag of the call.
Envs ==
    { NoEnv,
      [NoEnv EXCEPT !.image_ok = FALSE],
      [NoEnv EXCEPT !.write_ok = FALSE],
      [NoEnv EXCEPT !.raster_ok = FALSE],
      [NoEnv EXCEPT !.debug = TRUE] }

InitConvert ==
    /\ IdleWeb
    /\ svg_file \in ConvertDocs
    /\ image_size \in ImageSizes
    /\ env \in Envs
    /\ svg_root = None
    /\ tnuts = <<>>
    /\ grid_params = None
    /\ snap = None
    /\ output_svg = None
    /\ output_jpg = None
    /\ scan_pc = "start"
    /\ IdleEstimator
    /\ IdleRoutes
    /\ IdleDisplay

ConvertSvgToJpegGrid ==
    /\ scan_pc = "start"
    /\ \E r \in {convert_svg_to_jpeg_grid(svg_file, image_size, env)} :
          /\ svg_root' = r.svg_root
          /\ tnuts' = r.tnuts
          /\ grid_params' = r.grid_params
          /\ snap' = r.snap
          /\ output_svg' = r.output_svg
          /\ output_jpg' = r.output_jpg
          /\ scan_pc' = IF r.raised THEN "raised" ELSE "done"
    /\ UNCHANGED <<svg_file, image_size, env, est_points, probe, detectVars,
                   routeVars, displayVars, webVars>>

NextConvert == ConvertSvgToJpegGrid

SpecConvert == InitConvert /\ [][NextConvert]_vars

\* C3: the grid-aligned SVG that convert_svg_to_jpeg_grid writes holds the
\* polygons of the retained holds and no others: every polygon in it was
\* snapped and annotated by this call.
C3_OnlyRetainedWritten ==
    output_svg # None =>
        \A i \in DOMAIN output_svg.val.polygons :
            output_svg.val.polygons[i].original_tnut # None

----------------------------------------------------------------------------
\* The grid parameter estimator on its own: each strategy on a list of points.

\* The most points handed to the estimator.
MaxPoints == 4

PointPool == {Pt(0, 0), Pt(70, 780), Pt(9, 39), Pt(10, 390)}

\* A document whose polygons are tagged with the given bolt positions.
TaggedDoc(points) ==
    Doc(NoView, [i \in 1..Len(points) |-> Polygon(<<points[i]>>, Some(points[i]))])

InitGrid ==
    /\ IdleWeb
    /\ est_points \in SeqsUpTo(PointPool, MaxPoints)
    /\ svg_file = TaggedDoc(est_points)
    /\ image_size \in ImageSizes
    /\ env = NoEnv
    /\ svg_root = None
    /\ tnuts = <<>>
    /\ grid_params = None
    /\ snap = None
    /\ output_svg = None
    /\ output_jpg = None
    /\ scan_pc = "start"
    /\ probe = None
    /\ IdleDetect
    /\ IdleRoutes
    /\ IdleDisplay

GenerateTnutGrid ==
    /\ scan_pc = "start"
    /\ \E g \in {generate_tnut_grid(image_size[1], image_size[2], svg_file)} :
          /\ tnuts' = g.tnuts
          /\ grid_params' = g.grid_params
    /\ scan_pc' = "generated"
    /\ UNCHANGED <<svg_file, image_size, env, svg_root, snap, output_svg, output_jpg,
                   est_points, probe, detectVars,
                   routeVars, displayVars, webVars>>

CalculateGridParameters ==
    /\ scan_pc = "start"
    /\ grid_params' = calculate_grid_parameters(est_points)
    /\ scan_pc' = "calculated"
    /\ UNCHANGED <<svg_file, image_size, env, svg_root, tnuts, snap, output_svg, output_jpg,
                   est_points, probe, detectVars,
                   routeVars, displayVars, webVars>>

InferGridFromHolds ==
    /\ scan_pc = "start"
    /\ grid_params' = infer_grid_from_holds(est_points)
    /\ scan_pc' = "inferred"
    /\ UNCHANGED <<svg_file, image_size, env, svg_root, tnuts, snap, output_svg, output_jpg,
                   est_points, probe, detectVars,
                   routeVars, displayVars, webVars>>

NextGrid == GenerateTnutGrid \/ CalculateGridParameters \/ InferGridFromHolds

SpecGrid == InitGrid /\ [][NextGrid]_vars

\* The cell of bolt number i of the list generate_tnut_grid returns.
CellOfBolt(i) == <<(i - 1) % GridCols, (i - 1) \div GridCols>>

Positive(a) == a[1] > 0

\* C4: for grid parameters with positive spacing, the position
\* generate_tnut_grid gives the bolt of cell (c, r) is mapped back to (c, r)
\* by the cell computation of transform_svg_to_grid, for every cell of the grid.
C4_RoundTrip ==
    (scan_pc = "generated" /\ Positive(grid_params.spacing_x) /\ Positive(grid_params.spacing_y))
        => \A i \in DOMAIN tnuts : GridPos(tnuts[i], grid_params) = CellOfBolt(i)

\* C5: each strategy of the estimator, given fewer than 4 points, returns no
\* grid parameters and no bolts.
C5_FewPointsFail ==
    (scan_pc \in {"generated", "calculated", "inferred"} /\ Len(est_points) < 4)
        => (grid_params = None /\ tnuts = <<>>)

\* The coordinates on axis k of the points handed to the estimator.
Coords(k) == {est_points[i][k] : i \in DOMAIN est_points}

Least(S) == CHOOSE v \in S : \A u \in S : FLe(v, u)

Greatest(S) == CHOOSE v \in S : \A u \in S : FLe(u, v)

\* E, the lesser of the exponent of d and the exponent of half a unit in the
\* last place of s.
CommonExp(s, d) == IF s[2] - 1 < d[2] THEN s[2] - 1 ELSE d[2]

\* s is d / n to within half a unit in the last place of s:
\* |n * s - d| <= n * ulp(s) / 2, in units of 2^CommonExp(s, d).
IsQuotient(s, d, n) ==
    IF d[1] = 0 THEN s[1] = 0
    ELSE Abs(n * s[1] * 2^(s[2] - CommonExp(s, d)) - d[1] * 2^(d[2] - CommonExp(s, d)))
             <= n * 2^(s[2] - 1 - CommonExp(s, d))

\* C6: with tagged bolt positions on the input holds, generate_tnut_grid
\* yields spacing_x = (max_x - min_x) / 7, spacing_y = (max_y - min_y) / 39
\* and the origin (min_x, min_y); for the range 0..70 by 0..780 the spacing is
\* 10 by 20.
C6_ExplicitBounds ==
    (scan_pc = "generated" /\ Len(est_points) > 0) =>
        /\ grid_params.origin_x = Least(Coords(1))
        /\ grid_params.origin_y = Least(Coords(2))
        /\ IsQuotient(grid_params.spacing_x, FSub(Greatest(Coords(1)), Least(Coords(1))), 7)
        /\ IsQuotient(grid_params.spacing_y, FSub(Greatest(Coords(2)), Least(Coords(2))), 39)
        /\ (/\ Least(Coords(1)) = F(0) /\ Greatest(Coords(1)) = F(70)
            /\ Least(Coords(2)) = F(0) /\ Greatest(Coords(2)) = F(780))
               => (grid_params.spacing_x = F(10) /\ grid_params.spacing_y = F(20))

\* The grid was generated from holds tagged over 0..70 by 0..780.
C6_Witness ==
    /\ scan_pc = "generated"
    /\ Len(est_points) > 1
    /\ Least(Coords(1)) = F(0) /\ Greatest(Coords(1)) = F(70)
    /\ Least(Coords(2)) = F(0) /\ Greatest(Coords(2)) = F(780)
    /\ grid_params.spacing_x = F(10) /\ grid_params.spacing_y = F(20)
    /\ grid_params.origin_x = F(0) /\ grid_params.origin_y = F(0)

----------------------------------------------------------------------------
\* Route requests: validate_route, save_route and POST /api/routes on a
\* route as the editor or any other client sends it.

\* The most holds of a route.
MaxRouteHolds == 3

Hold(x, y, type) == [x |-> x, y |-> y, type |-> type]

StartHold == Hold(JInt(0), JInt(0), "start")

FinishHold == Hold(JInt(5), JInt(39), "finish")

\* Holds as clients may send them: well-formed ones, and ones with a column
\* out of range, a boolean column, a negative row, an unknown type, or a
\* field missing; the last one also carries the segment the display reads.
RouteHoldPool ==
    { StartHold,
      FinishHold,
      Hold(JInt(3), JFloat(10), "foot"),
      Hold(JInt(8), JInt(1), "regular"),
      Hold(JBool(TRUE), JInt(1), "regular"),
      Hold(JInt(1), JInt(-1), "regular"),
      Hold(JInt(1), JInt(1), "jug"),
      [x |-> JInt(1), y |-> JInt(1)],
      [y |-> JInt(1), type |-> "regular"],
      [x |-> JInt(2), y |-> JInt(5), type |-> "regular", segment |-> JInt(0)] }

HoldLists == SeqsUpTo(RouteHoldPool, MaxRouteHolds)

Routes ==
    {[name |-> "route", holds |-> hs] : hs \in HoldLists}
        \cup {[holds |-> hs] : hs \in HoldLists}
        \cup {[name |-> "route", holds |-> hs, created_at |-> "earlier"] : hs \in HoldLists}
        \cup {[name |-> "route"]}

Filenames == {"uuid-1.json", "uuid-2.json"}

StoredRoute == [name |-> "stored", holds |-> <<StartHold, FinishHold>>, created_at |-> "earlier"]

Folders == {{}, {[filename |-> "uuid-0.json", data |-> StoredRoute]}}

InitRoutes ==
    /\ IdleWeb
    /\ route_data \in Routes
    /\ routes_folder \in Folders
    /\ route_result = None
    /\ response = None
    /\ route_pc = "idle"
    /\ IdleScan
    /\ IdleDisplay

\* validate_route(route_data)
ValidateRoute ==
    /\ route_pc = "idle"
    /\ route_result' = validate_route(route_data)
    /\ route_pc' = "validated"
    /\ UNCHANGED <<route_data, routes_folder, response, scanVars, displayVars, webVars>>

\* save_route(route_data, routes_folder), called directly
SaveRoute ==
    /\ route_pc = "idle"
    /\ \E filename \in Filenames, writable \in BOOLEAN :
         \E outcome \in {save_route(route_data, routes_folder, filename, writable)} :
            /\ route_data' = outcome.route_data
            /\ routes_folder' = outcome.routes_folder
            /\ route_result' = IF outcome.raised = None THEN outcome.filename ELSE outcome.raised
            /\ route_pc' = IF outcome.raised = None THEN "saved" ELSE "save_raised"
    /\ UNCHANGED <<response, scanVars, displayVars, webVars>>

\* POST /api/routes with route_data as the request body
ApiRoutesPost ==
    /\ route_pc = "idle"
    /\ \E filename \in Filenames, writable \in BOOLEAN :
         \E outcome \in {save_route(route_data, routes_folder, filename, writable)} :
            /\ route_data' = outcome.route_data
            /\ routes_folder' = outcome.routes_folder
            /\ response' = PostResponse(outcome)
    /\ route_pc' = "responded"
    /\ UNCHANGED <<route_result, scanVars, displayVars, webVars>>

NextRoutes == ValidateRoute \/ SaveRoute \/ ApiRoutesPost

SpecRoutes == InitRoutes /\ [][NextRoutes]_vars

\* The route carries both required fields.
HasRequiredFields == {"name", "holds"} \subseteq DOMAIN route_data

\* No hold of the route has the given type.
NoHoldOfType(t) ==
    \A i \in DOMAIN route_data.holds :
        "type" \notin DOMAIN route_data.holds[i] \/ route_data.holds[i].type # t

RejectedWith(msg) == route_result = Raised("ValueError", msg)

\* C7: validate_route rejects a route without holds, without a start hold or
\* without a finish hold with a ValueError whose message names what is
\* missing; the route with the single hold {x:0, y:0, type:start} is rejected
\* for its missing finish hold and is accepted once {x:5, y:39, type:finish}
\* is added.
C7_MissingHoldsRejected ==
    (route_pc = "validated" /\ HasRequiredFields) =>
        /\ route_data.holds = <<>> => RejectedWith("Route must have at least one hold")
        /\ (route_data.holds # <<>> /\ NoHoldOfType("start"))
              => RejectedWith("Route must have at least one start hold")
        /\ (route_data.holds # <<>> /\ ~NoHoldOfType("start") /\ NoHoldOfType("finish"))
              => RejectedWith("Route must have at least one finish hold")
        /\ route_data.holds = <<StartHold>>
              => RejectedWith("Route must have at least one finish hold")
        /\ route_data.holds = <<StartHold, FinishHold>> => route_result = None

\* A hold validate_route is to reject: a field missing, a column that is
\* not an integer in 0..7, or a type outside start, foot, regular, finish.
BadHold(hold) ==
    \/ ~({"x", "y", "type"} \subseteq DOMAIN hold)
    \/ hold.x.kind # "int"
    \/ hold.x.val < 0
    \/ hold.x.val > 7
    \/ hold.type \notin {"start", "foot", "regular", "finish"}

\* C8: validate_route raises ValueError for every route that contains a hold
\* with a missing field, a column that is not an integer in 0..7 or an unknown
\* type, at whatever position of the list the hold stands.
C8_BadHoldRejected ==
    (/\ route_pc = "validated"
     /\ HasRequiredFields
     /\ \E i \in DOMAIN route_data.holds : BadHold(route_data.holds[i]))
        => (route_result # None /\ route_result.exc = "ValueError")

\* C9: a save_route call, direct or through POST /api/routes, on a route that
\* fails validation creates no file, leaves the stored routes as they are and
\* does not modify route_data.
C9_NothingSaved ==
    [][(/\ route_pc = "idle"
        /\ route_pc' \in {"saved", "save_raised", "responded"}
        /\ validate_route(route_data) # None)
          => (routes_folder' = routes_folder /\ route_data' = route_data)]_vars

\* POST /api/routes answered 400 for a route without a finish hold and without
\* a timestamp, with a route already stored in the folder.
C9_Witness ==
    /\ route_pc = "responded"
    /\ response.status = 400
    /\ response.error = "Route must have at least one finish hold"
    /\ "created_at" \notin DOMAIN route_data
    /\ routes_folder = {[filename |-> "uuid-0.json", data |-> StoredRoute]}

----------------------------------------------------------------------------
\* The keystone factor of a running display and the points it transforms.

Displays == {"projection_display", "keystone_projection"}

\* Key presses followed in one run of a display.
MaxPresses == 4

\* Pixel positions handed to apply_keystone.
KeystoneXs == {20, 60, 300, 580}

KeystoneYs == {33, 500, 966}

\* The step of one key press: 0.02 in projection_display.py, 0.1 in
\* keystone_projection.py.
KeyStep(d) ==
    IF d = "projection_display" THEN FDiv(FromInt(2), FromInt(100))
    ELSE FDiv(FromInt(1), FromInt(10))

InitKeystone ==
    /\ IdleWeb
    /\ display \in Displays
    /\ keystone = FZero
    /\ proj = IF display = "keystone_projection"
              THEN update_projection_area(surface_width, surface_height)
              ELSE None
    /\ key_presses = 0
    /\ ks_call = None
    /\ IdleLive
    /\ IdleScan
    /\ IdleRoutes

\* The amounts handed to adjust_keystone: the steps of the left and right
\* keys, and amounts that leave the range from anywhere inside it.
KeyAmounts(d) == {KeyStep(d), FNeg(KeyStep(d)), FromInt(2), FromInt(-2)}

\* adjust_keystone(amount), as for a left or right key press in run()
AdjustKeystone ==
    /\ key_presses < MaxPresses
    /\ key_presses' = key_presses + 1
    /\ \E amount \in KeyAmounts(display) :
          keystone' = adjust_keystone(keystone, amount)
    /\ UNCHANGED <<display, proj, ks_call, liveVars, scanVars, routeVars, webVars>>

\* apply_keystone(x, y) on a pixel position, with the default base_scale or
\* the one render passes
ApplyKeystone ==
    /\ \E x \in KeystoneXs, y \in KeystoneYs :
          ks_call' =
              [x |-> x, y |-> y, keystone |-> keystone,
               out |-> IF display = "keystone_projection"
                       THEN apply_keystone_area(keystone, proj, x, y)
                       ELSE apply_keystone(keystone, x, y, RenderScale(keystone))]
    /\ UNCHANGED <<display, keystone, proj, key_presses, liveVars, scanVars, routeVars, webVars>>

NextKeystone == AdjustKeystone \/ ApplyKeystone

SpecKeystone == InitKeystone /\ [][NextKeystone]_vars

\* C10: with keystone = 0, apply_keystone returns the point (x, y) it was
\* given and a scale factor of exactly 1, in projection_display.py and in
\* keystone_projection.py.
C10_ZeroKeystoneIdentity ==
    (ks_call # None /\ ks_call.keystone = FZero)
        => ks_call.out = <<ks_call.x, ks_call.y, FromInt(1)>>

----------------------------------------------------------------------------
\* A running display: run() with its render loop, and the listener thread.

\* Key presses followed while frames are rendered.
MaxFramePresses == 1

\* A hold of a route message.
LiveHold(segment, x, y, type) == [segment |-> segment, x |-> x, y |-> y, type |-> type]

\* A route message's data.
RouteOf(name, holds) == JObject([name |-> JStr(name), holds |-> JList(holds)])

\* A hold of segment 0 and one of segment 1.
RouteA == RouteOf("a", <<LiveHold(0, 3, 25, "start"), LiveHold(1, 4, 34, "finish")>>)

\* A hold without segment and type, after a complete one.
RouteC == RouteOf("c", <<LiveHold(0, 3, 25, "start"), [x |-> 1, y |-> 25]>>)

\* A message {type, data}
Message(type, data) == Json(JObject([type |-> JStr(type), data |-> data]))

WellFormedDatagrams ==
    {Message("route", RouteA), Message("position", JInt(30)),
     Message("position", JInt(50)), Message("position", JInt(-10)),
     Message("hold_size", JInt(10))}

MalformedDatagrams ==
    {Undecodable, NotJson, Json(JList(<<>>)), Message("colour", JInt(1)),
     Message("route", JStr("abc")), Message("route", RouteC),
     Message("position", JStr("nan")), Message("hold_size", JNull)}

Datagrams == WellFormedDatagrams \cup MalformedDatagrams

\* The state __init__ leaves: no route, position 0, hold size 20, the flag
\* set, the socket bound, no thread yet.
InitDisplay ==
    /\ IdleWeb
    /\ display \in Displays
    /\ keystone = FZero
    /\ proj = IF display = "keystone_projection"
              THEN update_projection_area(surface_width, surface_height)
              ELSE None
    /\ key_presses = 0
    /\ ks_call = None
    /\ running = TRUE
    /\ current_route = None
    /\ wall_position = FZero
    /\ hold_size = 20
    /\ sock = "open"
    /\ net_pc = "not_started"
    /\ last_msg = None
    /\ run_pc = "start"
    /\ frame = NoFrame
    /\ exit_cause = "none"
    /\ recv_age = 0
    /\ join_age = 0
    /\ IdleScan
    /\ IdleRoutes

\* run(): the listener thread is started.
StartListener ==
    /\ run_pc = "start"
    /\ run_pc' = "loop"
    /\ net_pc' = "loop"
    /\ UNCHANGED <<display, keystone, proj, key_presses, ks_call, running,
                   current_route, wall_position, hold_size, sock, last_msg, frame,
                   exit_cause, recv_age, join_age, scanVars, routeVars, webVars>>

\* The events one pass of the main loop finds.
Events == {"none", "quit", "left", "right"}

\* run(): the while test, then the events: QUIT or ESCAPE clears the flag, a
\* left or right key adjusts the keystone; then render() begins.
LoopHead ==
    /\ run_pc = "loop"
    /\ IF ~running
       THEN /\ run_pc' = "finally"
            /\ UNCHANGED <<running, keystone, key_presses, exit_cause, frame>>
       ELSE \E event \in Events :
            /\ event \in {"left", "right"} => key_presses < MaxFramePresses
            /\ running' = (event # "quit")
            /\ exit_cause' = IF event = "quit" THEN "quit" ELSE exit_cause
            /\ keystone' =
                  IF event = "left"
                  THEN adjust_keystone(keystone, FNeg(KeyStep(display)))
                  ELSE IF event = "right"
                  THEN adjust_keystone(keystone, KeyStep(display))
                  ELSE keystone
            /\ key_presses' = IF event \in {"left", "right"}
                              THEN key_presses + 1 ELSE key_presses
            /\ frame' = NoFrame
            /\ run_pc' = "render_check"
    /\ UNCHANGED <<display, proj, ks_call, current_route, wall_position, hold_size,
                   sock, net_pc, last_msg, recv_age, join_age, scanVars, routeVars, webVars>>

\* An exception leaves render() and the main loop for the finally block.
Caught == IF exit_cause = "none" THEN "exception" ELSE exit_cause

\* render(): if hasattr(self, 'current_route') and self.current_route
RenderCheck ==
    /\ run_pc = "render_check"
    /\ run_pc' = IF RouteLoaded(current_route) THEN "render_segment" ELSE "loop"
    /\ UNCHANGED <<display, keystone, proj, key_presses, ks_call, running,
                   current_route, wall_position, hold_size, sock, net_pc, last_msg,
                   frame, exit_cause, recv_age, join_age, scanVars, routeVars, webVars>>

\* render(): base_segment = int(self.wall_position / 40)
RenderSegment ==
    /\ run_pc = "render_segment"
    /\ IF IsFinite(wall_position)
       THEN /\ frame' = [frame EXCEPT !.seg_pos = wall_position,
                                      !.base_segment = BaseSegment(wall_position)]
            /\ run_pc' = "render_progress"
            /\ UNCHANGED exit_cause
       ELSE /\ frame' = [frame EXCEPT !.seg_pos = wall_position]
            /\ run_pc' = "finally"
            /\ exit_cause' = Caught
    /\ UNCHANGED <<display, keystone, proj, key_presses, ks_call, running,
                   current_route, wall_position, hold_size, sock, net_pc, last_msg,
                   recv_age, join_age, scanVars, routeVars, webVars>>

\* render(): segment_progress = (self.wall_position % 40) / 40
RenderProgress ==
    /\ run_pc = "render_progress"
    /\ frame' = [frame EXCEPT !.prog_pos = wall_position]
    /\ run_pc' = "render_holds"
    /\ UNCHANGED <<display, keystone, proj, key_presses, ks_call, running,
                   current_route, wall_position, hold_size, sock, net_pc, last_msg,
                   exit_cause, recv_age, join_age, scanVars, routeVars, webVars>>

\* render(): for hold in self.current_route.get('holds', [])
RenderHolds ==
    /\ run_pc = "render_holds"
    /\ IF IterationRaises(HoldsOf(current_route.val))
       THEN /\ run_pc' = "finally"
            /\ exit_cause' = Caught
            /\ UNCHANGED frame
       ELSE /\ frame' = [frame EXCEPT !.holds = Iterated(HoldsOf(current_route.val))]
            /\ run_pc' = IF Iterated(HoldsOf(current_route.val)) = <<>>
                         THEN "loop" ELSE "render_hold"
            /\ UNCHANGED exit_cause
    /\ UNCHANGED <<display, keystone, proj, key_presses, ks_call, running,
                   current_route, wall_position, hold_size, sock, net_pc, last_msg,
                   recv_age, join_age, scanVars, routeVars, webVars>>

\* render(): the body of the hold loop for the next hold; after the last hold
\* the frame is shown and the loop of run() comes round.
RenderOneHold ==
    /\ run_pc = "render_hold"
    /\ \E r \in {RenderHold(display, keystone, proj, hold_size, frame.base_segment,
                            VisibleStart(SegmentProgress(frame.prog_pos)),
                            frame.holds[frame.next])} :
          IF r.kind = "raise"
          THEN /\ run_pc' = "finally"
               /\ exit_cause' = Caught
               /\ UNCHANGED frame
          ELSE /\ frame' = [frame EXCEPT
                                !.next = @ + 1,
                                !.drawn = IF r.kind = "draw" THEN Append(@, r) ELSE @]
               /\ run_pc' = IF frame.next = Len(frame.holds)
                            THEN "loop" ELSE "render_hold"
               /\ UNCHANGED exit_cause
    /\ UNCHANGED <<display, keystone, proj, key_presses, ks_call, running,
                   current_route, wall_position, hold_size, sock, net_pc, last_msg,
                   recv_age, join_age, scanVars, routeVars, webVars>>

\* run(): finally: self.running = False
Finally ==
    /\ run_pc = "finally"
    /\ running' = FALSE
    /\ run_pc' = "join"
    /\ join_age' = 0
    /\ UNCHANGED <<display, keystone, proj, key_presses, ks_call, current_route,
                   wall_position, hold_size, sock, net_pc, last_msg, frame,
                   exit_cause, recv_age, scanVars, routeVars, webVars>>

\* run(): network_thread.join(timeout=1.0) returns: the thread has ended or
\* the timeout has passed.
JoinReturns ==
    /\ run_pc = "join"
    /\ net_pc = "stopped" \/ join_age >= JoinTimeout
    /\ run_pc' = "close"
    /\ UNCHANGED <<display, keystone, proj, key_presses, ks_call, running,
                   current_route, wall_position, hold_size, sock, net_pc, last_msg,
                   frame, exit_cause, recv_age, join_age, scanVars, routeVars, webVars>>

\* run(): self.sock.close()
CloseSocket ==
    /\ run_pc = "close"
    /\ sock' = "closed"
    /\ run_pc' = "done"
    /\ UNCHANGED <<display, keystone, proj, key_presses, ks_call, running,
                   current_route, wall_position, hold_size, net_pc, last_msg,
                   frame, exit_cause, recv_age, join_age, scanVars, routeVars, webVars>>

\* handle_network(): while self.running, then recvfrom is entered.
NetLoop ==
    /\ net_pc = "loop"
    /\ net_pc' = IF running THEN "recv" ELSE "stopped"
    /\ recv_age' = 0
    /\ UNCHANGED <<display, keystone, proj, key_presses, ks_call, running,
                   current_route, wall_position, hold_size, sock, last_msg, run_pc,
                   frame, exit_cause, join_age, scanVars, routeVars, webVars>>

\* handle_network(): recvfrom returns a datagram.
NetReceive ==
    /\ net_pc = "recv"
    /\ sock = "open"
    /\ \E datagram \in Datagrams : last_msg' = Some(datagram)
    /\ net_pc' = "handle"
    /\ recv_age' = 0
    /\ UNCHANGED <<display, keystone, proj, key_presses, ks_call, running,
                   current_route, wall_position, hold_size, sock, run_pc, frame,
                   exit_cause, join_age, scanVars, routeVars, webVars>>

\* handle_network(): recvfrom raises socket.timeout after 0.1 s, or an error
\* on a closed socket; both are caught and the loop comes round.
NetRecvRaises ==
    /\ net_pc = "recv"
    /\ recv_age >= RecvTimeout \/ sock = "closed"
    /\ net_pc' = "loop"
    /\ recv_age' = 0
    /\ UNCHANGED <<display, keystone, proj, key_presses, ks_call, running,
                   current_route, wall_position, hold_size, sock, last_msg, run_pc,
                   frame, exit_cause, join_age, scanVars, routeVars, webVars>>

\* handle_network(): the datagram is decoded and dispatched.
NetHandle ==
    /\ net_pc = "handle"
    /\ \E fields \in {handle_datagram(Fields(current_route, wall_position, hold_size),
                                      last_msg.val)} :
          /\ current_route' = fields.current_route
          /\ wall_position' = fields.wall_position
          /\ hold_size' = fields.hold_size
    /\ last_msg' = None
    /\ net_pc' = "loop"
    /\ UNCHANGED <<display, keystone, proj, key_presses, ks_call, running, sock,
                   run_pc, frame, exit_cause, recv_age, join_age, scanVars, routeVars, webVars>>

\* A tenth of a second passes: a pending recvfrom and a pending join grow
\* older, neither beyond its timeout; the listener's work between two
\* recvfrom calls takes no time.
Tick ==
    /\ net_pc \notin {"loop", "handle"}
    /\ net_pc = "recv" \/ run_pc = "join"
    /\ net_pc = "recv" => recv_age < RecvTimeout
    /\ run_pc = "join" => join_age < JoinTimeout
    /\ recv_age' = IF net_pc = "recv" THEN recv_age + 1 ELSE recv_age
    /\ join_age' = IF run_pc = "join" THEN join_age + 1 ELSE join_age
    /\ UNCHANGED <<display, keystone, proj, key_presses, ks_call, running,
                   current_route, wall_position, hold_size, sock, net_pc, last_msg,
                   run_pc, frame, exit_cause, scanVars, routeVars, webVars>>

NextDisplay ==
    \/ StartListener \/ LoopHead \/ RenderCheck \/ RenderSegment \/ RenderProgress
    \/ RenderHolds \/ RenderOneHold \/ Finally \/ JoinReturns \/ CloseSocket
    \/ NetLoop \/ NetReceive \/ NetRecvRaises \/ NetHandle \/ Tick

SpecDisplay == InitDisplay /\ [][NextDisplay]_vars

\* The holds the frame has drawn.
DrawnHolds == {frame.drawn[i].hold : i \in 1..Len(frame.drawn)}

\* The holds the frame has been through.
Processed == {frame.holds[j] : j \in 1..(frame.next - 1)}

\* Twice the visible-row offset of row y at an integral wall position: the
\* window starts at row 20 - (position mod 40) / 2.
TwiceRowOffset(y, position) == 2 * y - (40 - (position % 40))

\* The row lies in the 20-row window of the position.
Visible(y, position) ==
    TwiceRowOffset(y, position) >= 0 /\ TwiceRowOffset(y, position) < 40

\* A hold of segment 0, row 25, with every field.
Row25 == LiveHold(0, 3, 25, "start")

\* C11: a frame draws a hold only if the hold's visible-row offset lies in the
\* 20-row window of the wall position the frame read; the hold at row 25 is
\* drawn at position 0 and left out at position 30.
C11_OnlyVisibleDrawn ==
    /\ \A hold \in DrawnHolds :
          IsFinite(frame.prog_pos) /\ Visible(hold.y, FTrunc(frame.prog_pos))
    /\ (Row25 \in Processed /\ frame.seg_pos = FZero /\ frame.prog_pos = FZero)
          => Row25 \in DrawnHolds
    /\ (Row25 \in Processed /\ frame.prog_pos = FromInt(30)) => Row25 \notin DrawnHolds

\* A frame that drew one hold and filtered the other, at a position past the
\* first segment.
C11_Witness ==
    /\ frame.next = 3
    /\ Len(frame.drawn) = 1
    /\ frame.prog_pos = FromInt(50)

\* The hold lists of the route messages.
RouteMessages == {Iterated(HoldsOf(route)) : route \in {RouteA, RouteC}}

\* The holds of a list.
Range(holds) == {holds[i] : i \in 1..Len(holds)}

\* C12: a frame computes the segment index and the progress within the
\* segment from one value of wall_position, and draws holds of one route
\* message only, however the listener's writes interleave with it.
C12_ConsistentSnapshot ==
    run_pc \in {"render_holds", "render_hold", "loop"}
        => /\ frame.seg_pos = frame.prog_pos
           /\ \E holds \in RouteMessages : DrawnHolds \subseteq Range(holds)

\* The listener takes the datagram it received through the loop body.
HandlesDatagram == net_pc = "handle" /\ net_pc' # "handle"

\* C13: handling a malformed datagram (undecodable, not JSON, not an object,
\* of an unknown type, or with data of the wrong shape for its type) leaves
\* current_route, wall_position and hold_size as they were, and the listener
\* goes on to its next loop test.
C13_MalformedIgnored ==
    [][(HandlesDatagram /\ last_msg.val \in MalformedDatagrams)
          => /\ UNCHANGED <<current_route, wall_position, hold_size>>
             /\ net_pc' = "loop"]_vars

\* C14: the render loop of run() ends only by a quit or escape event: whatever
\* the listener has stored, the running flag is cleared for no other cause.
C14_RendererStaysUp == running = FALSE => exit_cause = "quit"

\* C15: on shutdown run() clears the running flag before it joins the
\* listener, and closes the socket only after the join; once the flag is
\* clear the listener ends within one receive timeout, which the join
\* outlasts, so the listener has ended (no recvfrom is pending) when the
\* socket is closed.
C15_OrderlyShutdown ==
    /\ run_pc \in {"join", "close", "done"} => ~running
    /\ sock = "closed" <=> run_pc = "done"
    /\ (run_pc = "join" /\ net_pc # "stopped") => join_age <= RecvTimeout
    /\ run_pc \in {"close", "done"} => net_pc = "stopped"

\* The socket is closed after a join that waited for a pending recvfrom to
\* time out.
C15_Witness ==
    /\ sock = "closed"
    /\ net_pc = "stopped"
    /\ join_age = RecvTimeout
    /\ ~running

\* The type and the data of a message {type, data}.
TypeOf(datagram) == datagram.value.fields.type.str

DataOf(datagram) == datagram.value.fields.data

\* C16: handling a well-formed update message sets the field of the message's
\* type to the message's data, whatever was there before (the last value
\* wins), and leaves the fields of the other two types as they were.
C16_LastValueWins ==
    [][(HandlesDatagram /\ last_msg.val \in WellFormedDatagrams)
          => /\ TypeOf(last_msg.val) = "route"
                   => /\ current_route' = Some(DataOf(last_msg.val))
                      /\ UNCHANGED <<wall_position, hold_size>>
             /\ TypeOf(last_msg.val) = "position"
                   => /\ wall_position' = FromInt(DataOf(last_msg.val).val)
                      /\ UNCHANGED <<current_route, hold_size>>
             /\ TypeOf(last_msg.val) = "hold_size"
                   => /\ hold_size' = DataOf(last_msg.val).val
                      /\ UNCHANGED <<current_route, wall_position>>]_vars

\* Each field holds the data of a message of its type, the position that of
\* the second position message after the first.
C16_Witness ==
    /\ current_route = Some(RouteA)
    /\ wall_position = FromInt(50)
    /\ hold_size = 10
    /\ net_pc = "loop"

----------------------------------------------------------------------------
\* C17: the grid parameters generate_tnut_grid returns for a hold range
\* satisfy spacing_x = (max_x - origin_x) / 7 and
\* spacing_y = (max_y - origin_y) / 39 on the fields returned.
C17_SpacingOfReturnedBounds ==
    (scan_pc = "generated" /\ Len(est_points) > 0) =>
        /\ IsQuotient(grid_params.spacing_x,
                      FSub(grid_params.max_x, grid_params.origin_x), 7)
        /\ IsQuotient(grid_params.spacing_y,
                      FSub(grid_params.max_y, grid_params.origin_y), 39)

NonPositive(a) == a[1] <= 0

\* C18: transform_svg_to_grid rejects grid parameters with a spacing of 0 or
\* less on either axis: the call fails, no hold has been examined and the
\* document is as it was.
C18_NonPositiveSpacingRejected ==
    (/\ scan_pc \in {"snapped", "raised"}
     /\ NonPositive(grid_params.spacing_x) \/ NonPositive(grid_params.spacing_y))
        => /\ scan_pc = "raised"
           /\ snap.holds = <<>>
           /\ svg_root = svg_file

\* The number of differences above 5 pixels between neighbouring coordinates
\* of the estimator's points on axis k.
UsableDiffs(k) == Len(SpacingDiffs(Coord(est_points, k)))

\* C19: calculate_grid_parameters returns no grid parameters whenever fewer
\* than 2 coordinate differences above 5 pixels remain on either axis.
C19_FewDiffsFail ==
    (scan_pc = "calculated" /\ (UsableDiffs(1) < 2 \/ UsableDiffs(2) < 2))
        => grid_params = None

----------------------------------------------------------------------------
\* Bolt detection on its own: detect_tnuts on one photograph.

\* The most circles a preset finds.
MaxCircles == 11

\* The circles a preset finds: none, or some around the number that ends the
\* loop.
CircleCounts == {0} \cup ((MaxCircles - 2)..MaxCircles)

\* What HoughCircles returns for preset p when it finds n circles: None, or
\* an array of shape (1, n, 3) of circles minDist apart with centres and
\* radii on half pixels.
Hough(p, n) ==
    IF n = 0 THEN None
    ELSE Some(Array(3, <<[i \in 1..n |->
                            <<2 * circle_params[p][2] * i + 1,
                              2 * circle_params[p][2] * p,
                              2 * circle_params[p][5] + 1>>]>>))

DetectEnvs == {[NoEnv EXCEPT !.image_ok = i, !.debug = d] : i \in BOOLEAN, d \in BOOLEAN}

InitDetect ==
    /\ IdleWeb
    /\ \E counts \in [DOMAIN circle_params -> CircleCounts] :
          found = [p \in DOMAIN circle_params |-> Hough(p, counts[p])]
    /\ env \in DetectEnvs
    /\ tried = 0
    /\ circles = None
    /\ detected = None
    /\ scan_pc = "detect_start"
    /\ svg_file = None
    /\ image_size = <<0, 0>>
    /\ svg_root = None
    /\ tnuts = <<>>
    /\ grid_params = None
    /\ snap = None
    /\ output_svg = None
    /\ output_jpg = None
    /\ est_points = <<>>
    /\ probe = None
    /\ IdleRoutes
    /\ IdleDisplay

\* detect_tnuts: cv2.imread, the ValueError when it returns None, the
\* preprocessing, circles = None.
DetectLoad ==
    /\ scan_pc = "detect_start"
    /\ IF env.image_ok
       THEN /\ scan_pc' = "detect_loop"
            /\ UNCHANGED detected
       ELSE /\ scan_pc' = "detect_raised"
            /\ detected' = Raised("ValueError", "Could not load image")
    /\ circles' = None
    /\ UNCHANGED <<svg_file, image_size, env, svg_root, tnuts, grid_params, snap,
                   output_svg, output_jpg, est_points, probe, found, tried,
                   routeVars, displayVars, webVars>>

\* detect_tnuts: one pass of the loop over the presets: HoughCircles, then the
\* break when enough circles were found; the loop also ends after the last
\* preset.
TryPreset ==
    /\ scan_pc = "detect_loop"
    /\ tried < Len(circle_params)
    /\ circles' = found[tried + 1]
    /\ tried' = tried + 1
    /\ scan_pc' = IF Enough(found[tried + 1]) \/ tried + 1 = Len(circle_params)
                  THEN "detect_debug" ELSE "detect_loop"
    /\ UNCHANGED <<svg_file, image_size, env, svg_root, tnuts, grid_params, snap,
                   output_svg, output_jpg, est_points, probe, found, detected,
                   routeVars, displayVars, webVars>>

\* detect_tnuts: the debug block, then the return.
DetectReturn ==
    /\ scan_pc = "detect_debug"
    /\ circles' = DebugCircles(env.debug, circles)
    /\ detected' = Some(ReturnValue(DebugCircles(env.debug, circles)))
    /\ scan_pc' = "detected"
    /\ UNCHANGED <<svg_file, image_size, env, svg_root, tnuts, grid_params, snap,
                   output_svg, output_jpg, est_points, probe, found, tried,
                   routeVars, displayVars, webVars>>

NextDetect == DetectLoad \/ TryPreset \/ DetectReturn

SpecDetect == InitDetect /\ [][NextDetect]_vars

\* The number of circles preset p finds.
Count(p) == IF found[p] = None THEN 0 ELSE Len(found[p].val.data[1])

\* The first preset in the list that finds at least 10 circles.
FirstWithTen ==
    CHOOSE p \in DOMAIN circle_params :
        Count(p) >= 10 /\ \A q \in 1..(p - 1) : Count(q) < 10

\* C20: detect_tnuts tries a preset only when every earlier preset found
\* fewer than 10 circles, and when some preset finds at least 10 it returns
\* the circles of the first such preset, having tried none after it.
C20_FirstPresetWithTen ==
    /\ \A q \in 1..(tried - 1) : Count(q) < 10
    /\ (scan_pc = "detected" /\ \E p \in DOMAIN circle_params : Count(p) >= 10)
          => /\ tried = FirstWithTen
             /\ detected.val # None
             /\ detected.val.val.ndim = 2
             /\ detected.val.val.data = RoundRows(found[FirstWithTen].val.data[1])

----------------------------------------------------------------------------
\* The hold the step draws, when render() draws one.
DrawsHold == run_pc = "render_hold" /\ Len(frame'.drawn) > Len(frame.drawn)

LastDrawn(f) == f.drawn[Len(f.drawn)]

\* C21: the radius of every hold drawn is hold_size times the scale factor
\* apply_keystone applied to the hold's horizontal displacement from the
\* centre line, truncated to whole pixels, in both display variants.
C21_RadiusScaledAsDisplacement ==
    [][DrawsHold =>
          LastDrawn(frame').size = FTrunc(FMul(FromInt(hold_size), LastDrawn(frame').scale))]_vars

\* -1 <= k <= 1
InRange(k) == FLe(FromInt(-1), k) /\ FLe(k, FromInt(1))

\* The bound nearest to a sum outside the range, the sum itself inside it.
NearestInRange(sum) ==
    IF FLt(FromInt(1), sum) THEN FromInt(1)
    ELSE IF FLt(sum, FromInt(-1)) THEN FromInt(-1)
    ELSE sum

\* C22: every adjust_keystone call leaves the keystone factor within [-1, 1]:
\* it is the sum of the factor and the amount when that lies in the range,
\* else the bound nearest to the sum.
C22_KeystoneClamped ==
    [][key_presses' # key_presses =>
          /\ InRange(keystone')
          /\ \E amount \in KeyAmounts(display) :
                keystone' = NearestInRange(FAdd(keystone, amount))]_vars

\* The factor was clamped to the lower bound after it had left 0.
C22_Witness ==
    /\ keystone = FromInt(-1)
    /\ key_presses = 2

\* floor(pos / 40) of a finite float, exactly.
Floor40(pos) ==
    IF pos[2] >= 0 THEN (pos[1] * 2^pos[2]) \div 40
    ELSE pos[1] \div (40 * 2^(0 - pos[2]))

\* C23: the segment a frame treats as current is floor(wall_position / 40) of
\* the wall position it read, so that the position lies in
\* [40 * segment, 40 * segment + 40) and the progress (position mod 40) / 40
\* is the progress through that segment, for negative positions too.
C23_SegmentIsFloor ==
    IsFinite(frame.seg_pos) => frame.base_segment = Floor40(frame.seg_pos)

----------------------------------------------------------------------------
\* The first-pass entry of polygon number i.
EntryOf(i) == CHOOSE h \in Candidates : h.polygon = i

\* The vector from a hold's reference point to its nearest bolt, in the units
\* of the document's viewBox.
Displacement(h, view) ==
    <<FDiv(FSub(h.nearest_tnut[1], h.tnut_x), view.scale_x),
      FDiv(FSub(h.nearest_tnut[2], h.tnut_y), view.scale_y)>>

\* Every point of the contour after is the point before plus d.
MovedBy(before, after, d) ==
    /\ Len(after) = Len(before)
    /\ \A k \in DOMAIN before :
          /\ after[k][1] = FAdd(before[k][1], d[1])
          /\ after[k][2] = FAdd(before[k][2], d[2])

\* The differences between any two points of the contour are as before.
SameShape(before, after) ==
    \A k \in DOMAIN before : \A l \in DOMAIN before :
        /\ FSub(after[k][1], after[l][1]) = FSub(before[k][1], before[l][1])
        /\ FSub(after[k][2], after[l][2]) = FSub(before[k][2], before[l][2])

\* C24: transform_svg_to_grid moves every point of a retained hold's contour
\* by one vector, from the hold's reference point to its nearest bolt in
\* viewBox units, so the differences between its points are unchanged, with
\* and without a viewBox offset and scale.
C24_ContourTranslated ==
    scan_pc = "snapped" =>
        \A i \in Retained :
            /\ MovedBy(svg_file.polygons[i].points, svg_root.polygons[i].points,
                       Displacement(EntryOf(i), ViewOf(svg_file)))
            /\ SameShape(svg_file.polygons[i].points, svg_root.polygons[i].points)

\* A hold was moved by a vector other than 0 in a document whose viewBox is
\* offset and scaled.
C24_Witness ==
    /\ scan_pc = "snapped"
    /\ svg_file.viewBox # None
    /\ \E i \in Retained :
          svg_root.polygons[i].points # svg_file.polygons[i].points

----------------------------------------------------------------------------
\* C25: when a step of convert_svg_to_jpeg_grid fails the call raises to its
\* caller and leaves no output: a call that returns normally, which the caller
\* reports as success, has written the grid SVG and the JPEG, and never is
\* one of the two files left without the other.
C25_FailureAborts ==
    /\ scan_pc = "done" => (output_svg # None /\ output_jpg # None)
    /\ scan_pc = "raised" => (output_svg = None /\ output_jpg = None)
    /\ output_svg # None <=> output_jpg # None

----------------------------------------------------------------------------
\* A display whose wall scrolls: the listener stores one position after
\* another of the segment of the route's hold while run() renders frames.

\* The last segment a hold is put in.
MaxSegment == 1

\* Rows at both ends and in the middle of a segment.
ScrollRows == {0, 1, 20, 39}

ScrollRoutes ==
    {RouteOf("s", <<LiveHold(s, 3, r, "regular")>>) : s \in 0..MaxSegment, r \in ScrollRows}

\* The hold of the route on display.
ScrollHold == HoldsOf(current_route.val).items[1]

\* The whole wall positions of segment s: 40s, 40s + 1, ..., 40s + 39.
SegmentPositions(s) == {40 * s + j : j \in 0..39}

\* The positions of segment s the listener receives: its first and last
\* positions and its middle.
ScrollStops(s) == {40 * s + j : j \in {0, 1, 20, 38, 39}}

InitScroll ==
    /\ IdleWeb
    /\ display \in Displays
    /\ keystone = FZero
    /\ proj = IF display = "keystone_projection"
              THEN update_projection_area(surface_width, surface_height)
              ELSE None
    /\ key_presses = 0
    /\ ks_call = None
    /\ running = TRUE
    /\ current_route \in {Some(route) : route \in ScrollRoutes}
    /\ wall_position = FZero
    /\ hold_size = 20
    /\ sock = "open"
    /\ net_pc = "recv"
    /\ last_msg = None
    /\ run_pc = "loop"
    /\ frame = NoFrame
    /\ exit_cause = "none"
    /\ recv_age = 0
    /\ join_age = 0
    /\ IdleScan
    /\ IdleRoutes

\* handle_network(): a position message of the hold's segment is received
\* and handled.
ScrollTo ==
    /\ running
    /\ net_pc = "recv"
    /\ \E p \in ScrollStops(ScrollHold.segment) :
          \E fields \in {handle_datagram(Fields(current_route, wall_position, hold_size),
                                         Message("position", JInt(p)))} :
              /\ current_route' = fields.current_route
              /\ wall_position' = fields.wall_position
              /\ hold_size' = fields.hold_size
    /\ UNCHANGED <<display, keystone, proj, key_presses, ks_call, running, sock,
                   net_pc, last_msg, run_pc, frame, exit_cause, recv_age, join_age,
                   scanVars, routeVars, webVars>>

NextScroll ==
    \/ ScrollTo \/ LoopHead \/ RenderCheck \/ RenderSegment \/ RenderProgress
    \/ RenderHolds \/ RenderOneHold

SpecScroll == InitScroll /\ [][NextScroll]_vars

\* What a frame that reads the whole position p does with the hold.
RenderedAt(hold, p) ==
    RenderHold(display, keystone, proj, hold_size, BaseSegment(FromInt(p)),
               VisibleStart(SegmentProgress(FromInt(p))), hold)

\* C26: for the hold on display, of segment s and any row of 0..39, there is a
\* wall position in [40s, 40s + 40) at which render() draws it.
C26_EveryRowShown ==
    \E p \in SegmentPositions(ScrollHold.segment) : RenderedAt(ScrollHold, p).kind = "draw"

\* The keys of a hold that render() reads: hold['segment'] for the visibility
\* test, then hold['x'], hold['y'] and hold['type'] in draw_hold.
RenderReads == {"segment", "x", "y", "type"}

\* C27: every route that validate_route accepts can be rendered without
\* raising: each of its holds carries segment, x, y and type.
C27_AcceptedRouteRenders ==
    (route_pc = "validated" /\ route_result = None) =>
        \A i \in DOMAIN route_data.holds : RenderReads \subseteq DOMAIN route_data.holds[i]

----------------------------------------------------------------------------
\* web_interface/utils/projection_system.py: ProjectionSystem.  Callers are
\* request threads; each projection loop runs in a thread of its own.

\* Threads start_projection may create in one behaviour.
MaxStarts == 2

ProjectedRoutes == {[name |-> "a"], [name |-> "b"]}

\* start_projection always creates a thread.
NeverRunning(ps) == FALSE

\* if self._running: raise RuntimeError("Projection already running")
AlreadyRunning(ps) == ps._running

\* A thread object: where its _projection_loop stands and the route it
\* projected last.
NewThread == [pc |-> "head", shown |-> None]

IsAlive(thread) == thread.pc # "dead"

Alive == {t \in DOMAIN ps_threads : IsAlive(ps_threads[t])}

CallOf(c, pc, result) == [ps_calls EXCEPT ![c].pc = pc, ![c].result = result]

InitProjection ==
    /\ IdleProjection
    /\ IdlePending
    /\ IdleScan
    /\ IdleRoutes
    /\ IdleDisplay

\* start_projection(route) by caller c: take the lock and test _running.  The
\* RuntimeError leaves the with block, which releases the lock.
StartEnter(c) ==
    /\ ps_calls[c].pc = "idle"
    /\ projection_system._lock = "free"
    /\ Len(ps_threads) < MaxStarts \/ projection_system._running
    /\ \E route \in ProjectedRoutes :
         IF AlreadyRunning(projection_system)
         THEN /\ ps_calls' = [ps_calls EXCEPT ![c] =
                     [pc |-> "idle", op |-> "start", route |-> route, result |-> "RuntimeError"]]
              /\ UNCHANGED projection_system
         ELSE /\ ps_calls' = [ps_calls EXCEPT ![c] =
                     [pc |-> "set_route", op |-> "start", route |-> route, result |-> "none"]]
              /\ projection_system' = [projection_system EXCEPT !._lock = c]
    /\ UNCHANGED <<ps_threads, pendingVars, scanVars, routeVars, displayVars>>

\* self.active_route = route
StartSetRoute(c) ==
    /\ ps_calls[c].pc = "set_route"
    /\ projection_system' = [projection_system EXCEPT !.active_route = ps_calls[c].route]
    /\ ps_calls' = CallOf(c, "set_running", "none")
    /\ UNCHANGED <<ps_threads, pendingVars, scanVars, routeVars, displayVars>>

\* self._running = True
StartSetRunning(c) ==
    /\ ps_calls[c].pc = "set_running"
    /\ projection_system' = [projection_system EXCEPT !._running = TRUE]
    /\ ps_calls' = CallOf(c, "start_thread", "none")
    /\ UNCHANGED <<ps_threads, pendingVars, scanVars, routeVars, displayVars>>

\* The thread is created and started, and the with block releases the lock.
StartThread(c) ==
    /\ ps_calls[c].pc = "start_thread"
    /\ ps_threads' = Append(ps_threads, NewThread)
    /\ projection_system' =
          [projection_system EXCEPT !._update_thread = Len(ps_threads) + 1, !._lock = "free"]
    /\ ps_calls' = CallOf(c, "idle", "returned")
    /\ UNCHANGED <<pendingVars, scanVars, routeVars, displayVars>>

\* stop_projection() by caller c: take the lock.
StopEnter(c) ==
    /\ ps_calls[c].pc = "idle"
    /\ projection_system._lock = "free"
    /\ projection_system' = [projection_system EXCEPT !._lock = c]
    /\ ps_calls' = [ps_calls EXCEPT ![c] =
            [pc |-> "clear_running", op |-> "stop", route |-> None, result |-> "none"]]
    /\ UNCHANGED <<ps_threads, pendingVars, scanVars, routeVars, displayVars>>

\* self._running = False; if self._update_thread: join it
StopClearRunning(c) ==
    /\ ps_calls[c].pc = "clear_running"
    /\ projection_system' = [projection_system EXCEPT !._running = FALSE]
    /\ ps_calls' = CallOf(c, IF projection_system._update_thread # 0 THEN "join"
                             ELSE "clear_route", "none")
    /\ UNCHANGED <<ps_threads, pendingVars, scanVars, routeVars, displayVars>>

\* self._update_thread.join() returns once the thread has ended; then
\* self._update_thread = None
StopJoin(c) ==
    /\ ps_calls[c].pc = "join"
    /\ ~IsAlive(ps_threads[projection_system._update_thread])
    /\ projection_system' = [projection_system EXCEPT !._update_thread = 0]
    /\ ps_calls' = CallOf(c, "clear_route", "none")
    /\ UNCHANGED <<ps_threads, pendingVars, scanVars, routeVars, displayVars>>

\* self.active_route = None, and the with block releases the lock.
StopClearRoute(c) ==
    /\ ps_calls[c].pc = "clear_route"
    /\ projection_system' = [projection_system EXCEPT !.active_route = None, !._lock = "free"]
    /\ ps_calls' = CallOf(c, "idle", "returned")
    /\ UNCHANGED <<ps_threads, pendingVars, scanVars, routeVars, displayVars>>

\* _projection_loop of thread t: while self._running
ProjectionLoopHead(t) ==
    /\ t \in DOMAIN ps_threads
    /\ ps_threads[t].pc = "head"
    /\ ps_threads' = [ps_threads EXCEPT ![t].pc =
            IF projection_system._running THEN "body" ELSE "dead"]
    /\ UNCHANGED <<projection_system, ps_calls, pendingVars, scanVars, routeVars, displayVars>>

\* The loop body: continue without a route, else project its holds and sleep;
\* an exception is printed and the loop goes on.
ProjectionLoopBody(t) ==
    /\ t \in DOMAIN ps_threads
    /\ ps_threads[t].pc = "body"
    /\ ps_threads' = [ps_threads EXCEPT ![t] =
            [pc |-> "head",
             shown |-> IF projection_system.active_route = None THEN ps_threads[t].shown
                       ELSE projection_system.active_route]]
    /\ UNCHANGED <<projection_system, ps_calls, pendingVars, scanVars, routeVars, displayVars>>

StartSteps(c) == StartSetRoute(c) \/ StartSetRunning(c) \/ StartThread(c)

StopSteps(c) == StopClearRunning(c) \/ StopJoin(c) \/ StopClearRoute(c)

LoopSteps(t) == ProjectionLoopHead(t) \/ ProjectionLoopBody(t)

NextProjection ==
    \/ \E c \in Callers : StartEnter(c)
    \/ \E c \in Callers : StartSetRoute(c)
    \/ \E c \in Callers : StartSetRunning(c)
    \/ \E c \in Callers : StartThread(c)
    \/ \E c \in Callers : StopEnter(c)
    \/ \E c \in Callers : StopClearRunning(c)
    \/ \E c \in Callers : StopJoin(c)
    \/ \E c \in Callers : StopClearRoute(c)
    \/ \E t \in 1..MaxStarts : ProjectionLoopHead(t)
    \/ \E t \in 1..MaxStarts : ProjectionLoopBody(t)

SpecProjection == InitProjection /\ [][NextProjection]_vars

\* Every thread that can take a step is scheduled in the end: a caller that
\* holds the lock goes on, and a projection loop goes on.
SpecProjectionFair ==
    /\ SpecProjection
    /\ \A c \in Callers : WF_vars(StartSteps(c)) /\ WF_vars(StopSteps(c))
    /\ \A t \in 1..MaxStarts : WF_vars(LoopSteps(t))

AtMostOneLoop == Cardinality(Alive) <= 1

StopReturns(c) == ps_calls[c].pc = "clear_route" /\ ps_calls'[c].pc = "idle"

InStop(c) == ps_calls[c].op = "stop" /\ ps_calls[c].pc # "idle"

\* C28: under any interleaving of start_projection and stop_projection calls
\* at most one projection loop thread is alive; a start_projection that finds
\* a projection running raises RuntimeError and leaves active_route, _running
\* and the threads as they are; every stop_projection call that has the lock
\* returns, and it returns with _running false and active_route None.
C28_OneLoopAtATime ==
    /\ []AtMostOneLoop
    /\ [][\A c \in Callers :
            (ps_calls[c].pc = "idle" /\ ps_calls'[c] # ps_calls[c]
               /\ ps_calls'[c].op = "start" /\ projection_system._running)
              => /\ ps_calls'[c].result = "RuntimeError"
                 /\ projection_system' = projection_system
                 /\ ps_threads' = ps_threads]_vars
    /\ [][\A c \in Callers :
            StopReturns(c) => /\ projection_system'._running = FALSE
                              /\ projection_system'.active_route = None]_vars
    /\ \A c \in Callers : InStop(c) ~> (ps_calls[c].pc = "idle")

\* A second loop runs after the first was stopped and joined, and the last
\* start_projection of the other caller was refused.
C28_Witness ==
    /\ Len(ps_threads) = 2
    /\ ~IsAlive(ps_threads[1])
    /\ ps_threads[2].shown # None
    /\ \E c \in Callers : ps_calls[c].result = "RuntimeError"

----------------------------------------------------------------------------
\* web_interface/app.py: POST /scan and POST /scan/finalize, each request
\* served by a worker thread of the development server.

\* Approved holds a finalize request may carry.
MaxApproved == 2

ALLOWED_EXTENSIONS == {"png", "jpg", "jpeg"}

allowed_file(filename) == filename.ext \in ALLOWED_EXTENSIONS

\* The uploads of POST /scan: no file part, an empty filename, photographs
\* (two of them with the same base name) and a text file.
NoUpload == [present |-> FALSE, filename |-> NoPath]

Uploads ==
    {NoUpload}
        \cup {[present |-> TRUE, filename |-> f] :
                f \in {NoPath, Filename("a", "jpg"), Filename("a", "png"),
                       Filename("b", "jpg"), Filename("notes", "txt")}}

\* The scan_id values of POST /scan/finalize: none, or an id.
RequestedIds == {""} \cup ScanIds

jsonify(status, body) == [status |-> status, body |-> body]

HasScan(a, scan_id) == \E e \in a.pending_scans : e.scan_id = scan_id

ImagePathOf(a, scan_id) == (CHOOSE e \in a.pending_scans : e.scan_id = scan_id).image_path

WithoutScan(a, scan_id) == {e \in a.pending_scans : e.scan_id # scan_id}

WithScan(a, scan_id, image_path) ==
    WithoutScan(a, scan_id) \cup {[scan_id |-> scan_id, image_path |-> image_path]}

\* app.pending_scans[scan_id] raises KeyError when the entry is gone.
KeyErrorOn(a, scan_id) == ~HasScan(a, scan_id)

\* Removing the entry as pop(scan_id, None) would: nothing is raised.
DelIgnoresMissing(a, scan_id) == FALSE

\* del app.pending_scans[scan_id] raises KeyError when the entry is gone.
DelRaises(a, scan_id) == ~HasScan(a, scan_id)

Respond(w, answer) == [requests EXCEPT ![w].pc = "idle", ![w].response = answer]

Goto(w, pc) == [requests EXCEPT ![w].pc = pc]

InitPending ==
    /\ IdlePending
    /\ IdleProjection
    /\ IdleScan
    /\ IdleRoutes
    /\ IdleDisplay

\* What scan_wall answers before it reaches the registry: None when the
\* upload is saved and the detection succeeds.
ScanRefusal(upload, image_ok) ==
    IF ~upload.present THEN jsonify(400, "No file provided")
    ELSE IF upload.filename = NoPath THEN jsonify(400, "No file selected")
    ELSE IF ~allowed_file(upload.filename) THEN jsonify(400, "Invalid file type")
    ELSE IF ~image_ok THEN jsonify(500, "Failed to load image")
    ELSE None

\* scan_wall() by worker w up to the saved detection image.
ScanWall(w) ==
    /\ requests[w].pc = "idle"
    /\ \E upload \in Uploads, image_ok \in BOOLEAN :
         requests' = [requests EXCEPT ![w] =
            [pc |-> IF ScanRefusal(upload, image_ok) = None THEN "hasattr" ELSE "idle",
             op |-> "scan",
             scan_id |-> upload.filename.stem,
             holds |-> 0,
             image_path |-> upload.filename,
             response |-> ScanRefusal(upload, image_ok)]]
    /\ UNCHANGED <<app, finalized, projectionVars, scanVars, routeVars, displayVars>>

\* if not hasattr(app, 'pending_scans')
ScanHasAttr(w) ==
    /\ requests[w].pc = "hasattr"
    /\ requests' = Goto(w, IF app.has_pending_scans THEN "register" ELSE "create")
    /\ UNCHANGED <<app, finalized, projectionVars, scanVars, routeVars, displayVars>>

\* app.pending_scans = {}
ScanCreate(w) ==
    /\ requests[w].pc = "create"
    /\ app' = [app EXCEPT !.has_pending_scans = TRUE, !.pending_scans = {}]
    /\ requests' = Goto(w, "register")
    /\ UNCHANGED <<finalized, projectionVars, scanVars, routeVars, displayVars>>

\* app.pending_scans[base_name] = {...} and the answer with the scan_id
ScanRegister(w) ==
    /\ requests[w].pc = "register"
    /\ app' = [app EXCEPT !.pending_scans =
                  WithScan(app, requests[w].scan_id, requests[w].image_path)]
    /\ finalized' = [finalized EXCEPT ![requests[w].scan_id] = 0]
    /\ requests' = Respond(w, jsonify(200, "Initial detections ready for review"))
    /\ UNCHANGED <<projectionVars, scanVars, routeVars, displayVars>>

\* What finalize_scan answers before the try block, None when it enters it.
FinalizeRefusal(a, scan_id, holds) ==
    IF scan_id = "" \/ holds = 0 THEN jsonify(400, "Missing scan_id or holds data")
    ELSE IF ~a.has_pending_scans \/ ~HasScan(a, scan_id)
    THEN jsonify(400, "Invalid or expired scan_id")
    ELSE None

\* finalize_scan() by worker w up to the try block.
FinalizeScan(w) ==
    /\ requests[w].pc = "idle"
    /\ \E scan_id \in RequestedIds, holds \in {0, MaxApproved} :
         requests' = [requests EXCEPT ![w] =
            [pc |-> IF FinalizeRefusal(app, scan_id, holds) = None THEN "read" ELSE "idle",
             op |-> "finalize",
             scan_id |-> scan_id,
             holds |-> holds,
             image_path |-> NoPath,
             response |-> FinalizeRefusal(app, scan_id, holds)]]
    /\ UNCHANGED <<app, finalized, projectionVars, scanVars, routeVars, displayVars>>

\* image_path = app.pending_scans[scan_id]['image_path']
FinalizeRead(w) ==
    /\ requests[w].pc = "read"
    /\ requests' =
          IF KeyErrorOn(app, requests[w].scan_id)
          THEN Respond(w, jsonify(500, "KeyError"))
          ELSE [requests EXCEPT ![w].pc = "process",
                                ![w].image_path = ImagePathOf(app, requests[w].scan_id)]
    /\ UNCHANGED <<app, finalized, projectionVars, scanVars, routeVars, displayVars>>

\* process_final_holds(image_path, approved_holds) returns the two paths or
\* raises; then app.config['GRID_JPG_PATH'] = grid_jpg_path
FinalizeProcess(w) ==
    /\ requests[w].pc = "process"
    /\ \E processed \in BOOLEAN :
         IF processed
         THEN /\ app' = [app EXCEPT !.GRID_JPG_PATH = Filename(requests[w].image_path.stem, "jpg")]
              /\ requests' = Goto(w, "del")
         ELSE /\ requests' = Respond(w, jsonify(500, "Error processing final holds"))
              /\ UNCHANGED app
    /\ UNCHANGED <<finalized, projectionVars, scanVars, routeVars, displayVars>>

\* del app.pending_scans[scan_id] and the success answer
FinalizeDelete(w) ==
    /\ requests[w].pc = "del"
    /\ IF DelRaises(app, requests[w].scan_id)
       THEN /\ requests' = Respond(w, jsonify(500, "KeyError"))
            /\ UNCHANGED <<app, finalized>>
       ELSE /\ app' = [app EXCEPT !.pending_scans = WithoutScan(app, requests[w].scan_id)]
            /\ requests' = Respond(w, jsonify(200, "Wall scan processed successfully"))
            /\ finalized' = [finalized EXCEPT ![requests[w].scan_id] = @ + 1]
    /\ UNCHANGED <<projectionVars, scanVars, routeVars, displayVars>>

NextPending ==
    \/ \E w \in Workers : ScanWall(w)
    \/ \E w \in Workers : ScanHasAttr(w)
    \/ \E w \in Workers : ScanCreate(w)
    \/ \E w \in Workers : ScanRegister(w)
    \/ \E w \in Workers : FinalizeScan(w)
    \/ \E w \in Workers : FinalizeRead(w)
    \/ \E w \in Workers : FinalizeProcess(w)
    \/ \E w \in Workers : FinalizeDelete(w)

SpecPending == InitPending /\ [][NextPending]_vars

\* Worker w receives a finalize request for an id that is not pending.
FinalizesUnknown(w) ==
    /\ requests[w].pc = "idle"
    /\ requests'[w].op = "finalize"
    /\ requests'[w] # requests[w]
    /\ ~HasScan(app, requests'[w].scan_id)

\* Worker w's finalize fails in process_final_holds.
ProcessingFails(w) == requests[w].pc = "process" /\ requests'[w].pc = "idle"

InvalidOrExpired == jsonify(400, "Invalid or expired scan_id")

AtMostOneSuccess == \A id \in ScanIds : finalized[id] <= 1

\* C29: between two registrations of a scan id at most one finalize_scan
\* reports success, under any interleaving of the requests; a finalize for an
\* id that is not pending is answered 'Invalid or expired scan_id'; a finalize
\* whose processing fails leaves the pending entry in place.
C29_FinalizedOnce ==
    /\ []AtMostOneSuccess
    /\ [][\A w \in Workers :
            FinalizesUnknown(w) => requests'[w].response = InvalidOrExpired]_vars
    /\ [][\A w \in Workers :
            ProcessingFails(w) => app'.pending_scans = app.pending_scans]_vars

\* C29 as amended: the same, for a finalize that carries a scan id and at
\* least one approved hold; without them the answer is 'Missing scan_id or
\* holds data', whether the id is pending or not.
C29_FinalizedOnceWithData ==
    /\ []AtMostOneSuccess
    /\ [][\A w \in Workers :
            (FinalizesUnknown(w) /\ requests'[w].scan_id # "" /\ requests'[w].holds > 0)
               => requests'[w].response = InvalidOrExpired]_vars
    /\ [][\A w \in Workers :
            ProcessingFails(w) => app'.pending_scans = app.pending_scans]_vars

\* Both workers finalized the same registered scan at once: one reported
\* success and the other the KeyError of the del, and the entry is gone.
C29_Witness ==
    /\ finalized["a"] = 1
    /\ ~HasScan(app, "a")
    /\ requests["w1"].op = "finalize" /\ requests["w2"].op = "finalize"
    /\ requests["w1"].scan_id = "a" /\ requests["w2"].scan_id = "a"
    /\ requests["w1"].response = jsonify(200, "Wall scan processed successfully")
    /\ requests["w2"].response = jsonify(500, "KeyError")
    /\ requests["w2"].image_path # NoPath

----------------------------------------------------------------------------
\* The points, the cell and the bolt of every polygon are the same in the
\* two documents.
SameSnapping(before, after) ==
    \A i \in DOMAIN before.polygons :
        /\ after.polygons[i].points = before.polygons[i].points
        /\ after.polygons[i].grid = before.polygons[i].grid
        /\ after.polygons[i].tnut = before.polygons[i].tnut

\* C30: running transform_svg_to_grid again on the document it left, with the
\* same grid parameters and bolts, changes no polygon's points and neither
\* its cell nor its bolt, whatever the viewBox offset and scale.
C30_SnapIdempotent ==
    scan_pc = "snapped" =>
        SameSnapping(svg_root, transform_svg_to_grid(svg_root, grid_params, tnuts).svg_root)

\* The same for documents without a viewBox, where the two coordinate spaces
\* are one.
C30_WithoutViewBox ==
    (scan_pc = "snapped" /\ svg_root.viewBox = None) =>
        SameSnapping(svg_root, transform_svg_to_grid(svg_root, grid_params, tnuts).svg_root)

====
